---- MODULE Spec2Model ----
(***************************************************************************)
(* Switch-port network configuration for bare-metal hosts: the attachment  *)
(* admission webhook (field validation and the reference guard) and the    *)
(* host controller's network-interface validator, drift detector and       *)
(* attachment resolver, and the provisioner's port reconciler.             *)
(*                                                                         *)
(* Go values are modelled as follows.                                      *)
(*   string           a TLA+ string; fmt.Sprintf is string concatenation   *)
(*   error            a record [msg, reason]; reason is the API status     *)
(*                    reason of a StatusError and "" for a plain error     *)
(*   nilable error    a sequence of at most one error (<<>> is nil)        *)
(*   []T              a sequence; where nil and empty differ for the code  *)
(*                    (reflect.DeepEqual) a record [isNil, items]          *)
(*   *int             a sequence of at most one integer (<<>> is nil)      *)
(***************************************************************************)
EXTENDS Integers, Sequences, FiniteSets, TLC

VARIABLES
    hosts,        \* BareMetalHost objects, by namespaced name
    attachments,  \* stored HostNetworkAttachment specs, by namespaced name
    admission,    \* the admission review the webhook answered last
    everRejected, \* attachments with an update or delete refused for references
    informer,     \* the hosts as the webhook's cached client reads them
    validation,   \* the interface validator's last call and what it returned
    probe,        \* input and output of the last call of a pure function, or the passes run
    pass,         \* the apply step of the last host-reconciliation pass
    everApplied,  \* hosts whose configuration was applied successfully once
    prov,         \* the host's provisioner object (ironicProvisioner)
    ironic,       \* the hardware-management service: the node and its ports
    call,         \* the provisioner call made last and what it returned
    cluster,      \* BareMetalSwitch objects and secrets of the API server
    publish,      \* the switch reconciles under way, by worker
    units         \* the secret events pending and the switch requests queued

vars == <<hosts, attachments, admission, everRejected, informer, validation, probe,
          pass, everApplied, prov, ironic, call, cluster, publish, units>>

\* The variables of the provisioner side, untouched by the cluster side.
provVars == <<prov, ironic, call>>

\* The variables of the switch controller.
switchVars == <<cluster, publish, units>>

----------------------------------------------------------------------------
(* Strings *)

\* strings.Contains(s, sub)
Contains(s, sub) ==
    \E i \in 1..(Len(s) - Len(sub) + 1) : SubSeq(s, i, i + Len(sub) - 1) = sub

RECURSIVE Join(_, _)
\* strings.Join(elems, sep)
Join(elems, sep) ==
    IF elems = <<>> THEN ""
    ELSE IF Len(elems) = 1 THEN elems[1]
    ELSE elems[1] \o sep \o Join(Tail(elems), sep)

DigitChars == <<"0", "1", "2", "3", "4", "5", "6", "7", "8", "9">>

RECURSIVE FormatNat(_)
FormatNat(n) ==
    IF n < 10 THEN DigitChars[n + 1]
    ELSE FormatNat(n \div 10) \o DigitChars[(n % 10) + 1]

\* fmt's %d verb
FormatInt(n) == IF n < 0 THEN "-" \o FormatNat(0 - n) ELSE FormatNat(n)

\* The characters names and MAC addresses are made of, in byte order.
ByteOrder == "-.0123456789:abcdefghijklmnopqrstuvwxyz"

CharRank(c) == CHOOSE i \in 1..Len(ByteOrder) : SubSeq(ByteOrder, i, i) = c

RECURSIVE StringLess(_, _)
\* a < b on Go strings: bytewise, a proper prefix being smaller
StringLess(a, b) ==
    IF b = "" THEN FALSE
    ELSE IF a = "" THEN TRUE
    ELSE LET ca == CharRank(SubSeq(a, 1, 1))
             cb == CharRank(SubSeq(b, 1, 1))
         IN  IF ca # cb THEN ca < cb
             ELSE StringLess(SubSeq(a, 2, Len(a)), SubSeq(b, 2, Len(b)))

RECURSIVE SortStrings(_)
\* sort.Strings: ascending; equal strings are indistinguishable
SortStrings(elems) ==
    IF elems = <<>> THEN <<>>
    ELSE LET rest == SortStrings(Tail(elems))
             k == Cardinality({i \in 1..Len(rest) : StringLess(rest[i], elems[1])})
         IN  SubSeq(rest, 1, k) \o <<elems[1]>> \o SubSeq(rest, k + 1, Len(rest))

\* errors.New / fmt.Errorf: a plain error
NewError(msg) == [msg |-> msg, reason |-> ""]

\* fmt.Errorf(prefix + "%w", err)
Wrap(prefix, err) == [msg |-> prefix \o err.msg, reason |-> ""]

----------------------------------------------------------------------------
(* HostNetworkAttachment field validation (webhook, create and update) *)

SwitchportModeAccess == "access"
SwitchportModeTrunk  == "trunk"
SwitchportModeHybrid == "hybrid"

MinVLANID == 1
MaxVLANID == 4094
MinMTU == 68
MaxMTU == 9000

\* A nil slice and a non-nil slice of the same items differ for
\* reflect.DeepEqual; len() and range treat them alike.
NilSlice == [isNil |-> TRUE, items |-> <<>>]
SliceOf(items) == [isNil |-> FALSE, items |-> items]

\* validateVLANID with its upper limit off by one (fault injection).
validateVLANID_offByOne(vlan) ==
    IF vlan < MinVLANID \/ vlan > MaxVLANID + 1
    THEN <<NewError("VLAN ID " \o FormatInt(vlan) \o " is out of range (1-4094)")>>
    ELSE <<>>

\* validateVLANID validates a single VLAN ID.
validateVLANID(vlan) ==
    IF vlan < MinVLANID \/ vlan > MaxVLANID
    THEN <<NewError("VLAN ID " \o FormatInt(vlan) \o " is out of range (1-4094)")>>
    ELSE <<>>

\* validateVLANList: the error of the first entry that is out of range.
validateVLANList(vlans) ==
    LET bad == {i \in 1..Len(vlans) : validateVLANID(vlans[i]) # <<>>}
    IN  IF bad = {} THEN <<>>
        ELSE validateVLANID(vlans[CHOOSE i \in bad : \A j \in bad : i <= j])

\* validateSwitchportConfiguration: the mode switch returns on its first
\* error; the native VLAN is looked at only when the switch fell through.
validateSwitchportConfiguration(spec) ==
    LET mode == spec.Mode
        allowedVLANs == spec.AllowedVLANs.items
        listErr == validateVLANList(allowedVLANs)
        nativeErr == validateVLANID(spec.NativeVLAN)
    IN  IF mode = SwitchportModeAccess /\ Len(allowedVLANs) > 0
        THEN <<NewError("allowedVlans cannot be specified for access mode")>>
        ELSE IF mode \in {SwitchportModeTrunk, SwitchportModeHybrid} /\ listErr # <<>>
        THEN <<Wrap("invalid allowedVlans: ", listErr[1])>>
        ELSE IF mode \notin {SwitchportModeAccess, SwitchportModeTrunk, SwitchportModeHybrid}
        THEN <<NewError("invalid switchport mode: " \o mode)>>
        ELSE IF nativeErr # <<>>
        THEN <<Wrap("invalid nativeVlan: ", nativeErr[1])>>
        ELSE <<>>

\* validateMTU validates the MTU value when one is set.
validateMTU(spec) ==
    IF spec.MTU # <<>> /\ (spec.MTU[1] < MinMTU \/ spec.MTU[1] > MaxMTU)
    THEN <<NewError("MTU " \o FormatInt(spec.MTU[1]) \o " is out of range (68-9000)")>>
    ELSE <<>>

\* validateAttachment returning at its first error (fault injection).
validateAttachment_firstErrorOnly(spec) ==
    IF validateSwitchportConfiguration(spec) # <<>>
    THEN validateSwitchportConfiguration(spec)
    ELSE validateMTU(spec)

\* validateAttachment: the switchport error, then the MTU error.
validateAttachment(spec) ==
    validateSwitchportConfiguration(spec) \o validateMTU(spec)

\* kerrors.NewAggregate(errs): nil for an empty list, else one error whose
\* message is the only message, or the distinct messages in brackets.
RECURSIVE DistinctMsgs(_, _)
DistinctMsgs(errs, seen) ==
    IF errs = <<>> THEN <<>>
    ELSE IF errs[1].msg \in seen THEN DistinctMsgs(Tail(errs), seen)
    ELSE <<errs[1].msg>> \o DistinctMsgs(Tail(errs), seen \cup {errs[1].msg})

NewAggregate(errs) ==
    IF errs = <<>> THEN <<>>
    ELSE LET msgs == DistinctMsgs(errs, {})
         IN  IF Len(msgs) = 1 THEN <<NewError(msgs[1])>>
             ELSE <<NewError("[" \o Join(msgs, ", ") \o "]")>>

----------------------------------------------------------------------------
(* Objects *)

\* HostNetworkAttachmentRef
AttachmentRef(name, namespace) == [Name |-> name, Namespace |-> namespace]

\* NetworkInterface: identified by Name or by MACAddress
NetworkInterface(name, mac, ref) ==
    [Name |-> name, MACAddress |-> mac, HostNetworkAttachment |-> ref]

\* NetworkInterface.GetKey: the name if set, else the MAC address
GetKey(netIf) == IF netIf.Name # "" THEN netIf.Name ELSE netIf.MACAddress

\* metav1.ObjectMeta: the namespaced name of an object
ObjectMeta(namespace, name) == [Namespace |-> namespace, Name |-> name]

\* The hosts of the cluster, in the order a list call returns them.
HostOrder == <<ObjectMeta("ns1", "host-a"), ObjectMeta("ns2", "host-b")>>
HostIds == {HostOrder[i] : i \in 1..Len(HostOrder)}

\* The attachment objects an administrator may create.
AttachmentOrder == <<ObjectMeta("ns1", "net-a"), ObjectMeta("ns2", "net-a")>>
AttachmentIds == {AttachmentOrder[i] : i \in 1..Len(AttachmentOrder)}

\* The provisioning states of a host the model uses; port updates are
\* allowed in the first four.
StateRegistering == "registering"
StatePreparing == "preparing"
StateAvailable == "available"
StateInspecting == "inspecting"
StateProvisioning == "provisioning"
StateProvisioned == "provisioned"

\* A host before inspection, with no declared interface, no condition and
\* nothing applied (Status.AppliedNetworkInterfaces is nil).
NewHost ==
    [NetworkInterfaces |-> <<>>,
     HardwareDetails   |-> <<>>,
     Conditions        |-> <<>>,
     AppliedNetworkInterfaces |-> NilSlice,
     State             |-> StateRegistering]

----------------------------------------------------------------------------
(* Reference guard: the reverse index and the update and delete checks *)

\* The field indexer registered in SetupWebhookWithManager: one key
\* "<namespace>/<name>" per interface that names an attachment, the
\* namespace being the ref's, else the host's.
RECURSIVE IndexKeys(_, _)
IndexKeys(hostMeta, netIfs) ==
    IF netIfs = <<>> THEN <<>>
    ELSE LET ref == netIfs[1].HostNetworkAttachment
             ns  == IF ref.Namespace = "" THEN hostMeta.Namespace ELSE ref.Namespace
         IN  (IF ref.Name # "" THEN <<ns \o "/" \o ref.Name>> ELSE <<>>)
             \o IndexKeys(hostMeta, Tail(netIfs))

\* Client.List with a field selector on the index and ListOptions.Namespace:
\* the hosts of that namespace whose index values hold the key.
RECURSIVE ListHosts(_, _, _, _)
ListHosts(order, bmhs, namespace, indexKey) ==
    IF order = <<>> THEN <<>>
    ELSE LET keys == IndexKeys(order[1], bmhs[order[1]].NetworkInterfaces)
             hit  == /\ order[1].Namespace = namespace
                     /\ \E i \in 1..Len(keys) : keys[i] = indexKey
         IN  (IF hit THEN <<order[1]>> ELSE <<>>)
             \o ListHosts(Tail(order), bmhs, namespace, indexKey)

\* The error of a list call that fails.
ListFailure == NewError("the cache is not started, can not read objects")

\* The inner loop of findBMHReferences: "<ns>/<host>[<interface name>]" for
\* each interface of one host whose resolved reference is the attachment.
RECURSIVE HostReferences(_, _, _)
HostReferences(hostMeta, netIfs, attMeta) ==
    IF netIfs = <<>> THEN <<>>
    ELSE LET ref   == netIfs[1].HostNetworkAttachment
             refNS == IF ref.Namespace = "" THEN hostMeta.Namespace ELSE ref.Namespace
         IN  (IF ref.Name = attMeta.Name /\ refNS = attMeta.Namespace
              THEN <<hostMeta.Namespace \o "/" \o hostMeta.Name \o "[" \o netIfs[1].Name \o "]">>
              ELSE <<>>)
             \o HostReferences(hostMeta, Tail(netIfs), attMeta)

RECURSIVE ListedReferences(_, _, _)
ListedReferences(listed, bmhs, attMeta) ==
    IF listed = <<>> THEN <<>>
    ELSE HostReferences(listed[1], bmhs[listed[1]].NetworkInterfaces, attMeta)
         \o ListedReferences(Tail(listed), bmhs, attMeta)

\* findBMHReferences comparing attachment names only, over every host and
\* whatever the namespaces are (fault injection).
RECURSIVE NameReferences(_, _, _)
NameReferences(hostMeta, netIfs, attMeta) ==
    IF netIfs = <<>> THEN <<>>
    ELSE (IF netIfs[1].HostNetworkAttachment.Name = attMeta.Name
          THEN <<hostMeta.Namespace \o "/" \o hostMeta.Name \o "[" \o netIfs[1].Name \o "]">>
          ELSE <<>>)
         \o NameReferences(hostMeta, Tail(netIfs), attMeta)

RECURSIVE AllNameReferences(_, _, _)
AllNameReferences(order, bmhs, attMeta) ==
    IF order = <<>> THEN <<>>
    ELSE NameReferences(order[1], bmhs[order[1]].NetworkInterfaces, attMeta)
         \o AllNameReferences(Tail(order), bmhs, attMeta)

findBMHReferences_nameOnly(bmhs, attMeta, listFails) ==
    IF listFails
    THEN [references |-> <<>>,
          err |-> <<Wrap("failed to list BMHs using index: ", ListFailure)>>]
    ELSE [references |-> AllNameReferences(HostOrder, bmhs, attMeta),
          err |-> <<>>]

\* findBMHReferences: list the hosts of the attachment's own namespace that
\* are indexed under "<namespace>/<name>", then collect their references.
findBMHReferences(bmhs, attMeta, listFails) ==
    LET indexKey == attMeta.Namespace \o "/" \o attMeta.Name
    IN  IF listFails
        THEN [references |-> <<>>,
              err |-> <<Wrap("failed to list BMHs using index: ", ListFailure)>>]
        ELSE [references |->
                  ListedReferences(
                      ListHosts(HostOrder, bmhs, attMeta.Namespace, indexKey),
                      bmhs, attMeta),
              err |-> <<>>]

\* k8serrors.NewForbidden(resource, name, err)
NewForbidden(resource, name, err) ==
    [msg |-> resource \o " \"" \o name \o "\" is forbidden: " \o err.msg,
     reason |-> "Forbidden"]

\* validateUpdate returning the validation errors for an unchanged spec
\* instead of nil (fault injection).
validateUpdate_checksUnchanged(bmhs, attMeta, oldSpec, newSpec, listFails) ==
    LET validationErrs == validateAttachment(newSpec)
        found == findBMHReferences(bmhs, attMeta, listFails)
        refs  == Join(found.references, ", ")
    IN  IF oldSpec = newSpec
        THEN [warnings |-> <<>>, err |-> NewAggregate(validationErrs)]
        ELSE IF found.err # <<>>
        THEN [warnings |-> <<>>,
              err |-> <<Wrap("failed to check BMH references, cannot safely allow update: ",
                             found.err[1])>>]
        ELSE IF Len(found.references) > 0
        THEN [warnings |-> <<"Cannot modify attachment while in use by: " \o refs \o
                             ". Remove references first or create a new attachment.">>,
              err |-> NewAggregate(validationErrs \o
                         <<NewError("HostNetworkAttachment spec is immutable while referenced by BMH interfaces: "
                                    \o refs)>>)]
        ELSE [warnings |-> <<"NetworkAttachment modified successfully. No BMH references found.">>,
              err |-> NewAggregate(validationErrs)]

\* validateUpdate letting the update through when the lookup fails
\* (fault injection).
validateUpdate_failOpen(bmhs, attMeta, oldSpec, newSpec, listFails) ==
    LET validationErrs == validateAttachment(newSpec)
        found == findBMHReferences(bmhs, attMeta, listFails)
        refs  == Join(found.references, ", ")
    IN  IF oldSpec = newSpec
        THEN [warnings |-> <<>>, err |-> <<>>]
        ELSE IF Len(found.references) > 0
        THEN [warnings |-> <<"Cannot modify attachment while in use by: " \o refs \o
                             ". Remove references first or create a new attachment.">>,
              err |-> NewAggregate(validationErrs \o
                         <<NewError("HostNetworkAttachment spec is immutable while referenced by BMH interfaces: "
                                    \o refs)>>)]
        ELSE [warnings |-> <<"NetworkAttachment modified successfully. No BMH references found.">>,
              err |-> NewAggregate(validationErrs)]

\* validateUpdate: the new spec is validated first; an update whose spec is
\* deep-equal to the old one returns nil at once; otherwise the references
\* are looked up (a failed lookup rejects) and any reference rejects.
validateUpdate(bmhs, attMeta, oldSpec, newSpec, listFails) ==
    LET validationErrs == validateAttachment(newSpec)
        found == findBMHReferences(bmhs, attMeta, listFails)
        refs  == Join(found.references, ", ")
    IN  IF oldSpec = newSpec
        THEN [warnings |-> <<>>, err |-> <<>>]
        ELSE IF found.err # <<>>
        THEN [warnings |-> <<>>,
              err |-> <<Wrap("failed to check BMH references, cannot safely allow update: ",
                             found.err[1])>>]
        ELSE IF Len(found.references) > 0
        THEN [warnings |-> <<"Cannot modify attachment while in use by: " \o refs \o
                             ". Remove references first or create a new attachment.">>,
              err |-> NewAggregate(validationErrs \o
                         <<NewError("HostNetworkAttachment spec is immutable while referenced by BMH interfaces: "
                                    \o refs)>>)]
        ELSE [warnings |-> <<"NetworkAttachment modified successfully. No BMH references found.">>,
              err |-> NewAggregate(validationErrs)]

\* validateDelete: a failed lookup is an error; any reference is Forbidden.
validateDelete(bmhs, attMeta, listFails) ==
    LET found == findBMHReferences(bmhs, attMeta, listFails)
        refs  == Join(found.references, ", ")
    IN  IF found.err # <<>>
        THEN [warnings |-> <<>>,
              err |-> <<Wrap("failed to check BMH references: ", found.err[1])>>]
        ELSE IF Len(found.references) > 0
        THEN [warnings |-> <<"This attachment is referenced by: " \o refs>>,
              err |-> <<NewForbidden("hostnetworkattachments.metal3.io", attMeta.Name,
                           NewError("cannot delete attachment while referenced by BMH interfaces: "
                                    \o refs))>>]
        ELSE [warnings |-> <<>>, err |-> <<>>]

\* An object handed to the webhook that is not a HostNetworkAttachment.
ForeignObject == [Kind |-> "BareMetalHost"]

\* k8serrors.NewBadRequest(reason)
NewBadRequest(msg) == [msg |-> msg, reason |-> "BadRequest"]

\* What the API server answers when the handler panics on a nil pointer:
\* the webhook is registered with failurePolicy=fail, so the request fails.
HandlerPanic ==
    [msg |-> "panic: runtime error: invalid memory address or nil pointer dereference",
     reason |-> "InternalError"]

\* ValidateCreate: the attachment's namespace is logged before the type
\* assertion is checked, so an object of another type ends in a nil-pointer
\* panic; an attachment gets field validation only.
ValidateCreate(obj) ==
    IF obj = ForeignObject
    THEN [warnings |-> <<>>, err |-> <<HandlerPanic>>]
    ELSE [warnings |-> <<>>, err |-> NewAggregate(validateAttachment(obj))]

\* ValidateUpdate: an old object of another type is logged through the nil
\* result of the type assertion, which panics; a new object of another type
\* is a bad request; two attachments go to validateUpdate.
ValidateUpdate(bmhs, attMeta, oldObj, newObj, listFails) ==
    IF oldObj = ForeignObject
    THEN [warnings |-> <<>>, err |-> <<HandlerPanic>>]
    ELSE IF newObj = ForeignObject
    THEN [warnings |-> <<>>,
          err |-> <<NewBadRequest("expected a HostNetworkAttachment but got a *v1alpha1.BareMetalHost")>>]
    ELSE validateUpdate(bmhs, attMeta, oldObj, newObj, listFails)

\* ValidateDelete: an object of another type is a bad request; an
\* attachment goes to validateDelete.
ValidateDelete(bmhs, attMeta, obj, listFails) ==
    IF obj = ForeignObject
    THEN [warnings |-> <<>>,
          err |-> <<NewBadRequest("expected a HostNetworkAttachment but got a *v1alpha1.BareMetalHost")>>]
    ELSE validateDelete(bmhs, attMeta, listFails)

----------------------------------------------------------------------------
(* Bounds and input sets *)

\* The longest declared-interface list of a host.
MaxIfaces == 2

\* Interfaces a host may declare towards an attachment: by default
\* namespace and by explicit namespace, which is host-b's own and another
\* than host-a's.
GuardInterfaces ==
    {NetworkInterface("eth0", "", AttachmentRef("net-a", ns)) : ns \in {"", "ns2"}}

\* The longest allowedVLANs list submitted for validation.
MaxVLANs == 2

\* The longest discovered-NIC list of a host.
MaxNICs == 2

\* Sequences over S of length at most n
SeqsUpTo(S, n) == UNION {[1..k -> S] : k \in 0..n}

AccessSpec ==
    [Mode |-> SwitchportModeAccess, NativeVLAN |-> 100,
     AllowedVLANs |-> NilSlice, MTU |-> <<>>]
TrunkSpec ==
    [Mode |-> SwitchportModeTrunk, NativeVLAN |-> 1,
     AllowedVLANs |-> NilSlice, MTU |-> <<>>]
\* Rejected by validateAttachment: access mode with allowed VLANs.
BadAccessSpec ==
    [Mode |-> SwitchportModeAccess, NativeVLAN |-> 100,
     AllowedVLANs |-> SliceOf(<<200>>), MTU |-> <<>>]

\* Specs an administrator submits; a stored object may hold any of them
\* (an object may predate the webhook's registration).
GuardSpecs == {AccessSpec, TrunkSpec, BadAccessSpec}

----------------------------------------------------------------------------
(* State *)

\* No admission review is in flight. oldObj and newObj hold the objects of
\* the review, resp the webhook's answer.
NoAdmission ==
    [op |-> "none", att |-> AttachmentOrder[1], oldObj |-> <<>>, newObj |-> <<>>,
     listFails |-> FALSE, resp |-> [warnings |-> <<>>, err |-> <<>>]]

\* The informer cache of the webhook's client: the hosts it holds and the
\* watch events, in order, it has not applied yet.
NoInformer == [hosts |-> [h \in HostIds |-> NewHost], events |-> <<>>]

NoValidation ==
    [ran |-> FALSE, host |-> HostOrder[1], before |-> NewHost, dirty |-> FALSE]

NoProbe == [done |-> FALSE, spec |-> AccessSpec, errs |-> <<>>]

\* No apply step has run in the current pass. resolved holds the result of
\* resolveSwitchPortConfigs if it was called, calls the maps handed to the
\* provisioner's SetSwitchPortConfigs, in order.
NoPass ==
    [ran |-> FALSE, host |-> HostOrder[1], before |-> NewHost, dirty |-> FALSE,
     err |-> <<>>, resolved |-> <<>>, calls |-> <<>>]

\* A provisioner for a host with no boot MAC, not registered, before
\* inspection and with no switch-port configuration set.
NoProv ==
    [bootMACAddress |-> "", nodeID |-> "", storedHardwareDetails |-> <<>>,
     switchPortConfigs |-> <<>>]

\* The service knows no node and no port.
NoIronic == [node |-> <<>>, ports |-> <<>>]

\* No provisioner call is in progress. before holds the service's state when
\* the call began, input what the call meets at the service, requests the
\* calls sent to the service in order, attempts the per-NIC ensure
\* operations in order.
NoCall ==
    [op |-> "none", before |-> NoIronic,
     input |-> [pre |-> "", createOutcome |-> "",
                faults |-> [list |-> FALSE, ensure |-> {}, pxe |-> ""],
                tail |-> [update |-> "none", retryOnError |-> FALSE,
                          networkData |-> "ok"]],
     requests |-> <<>>, attempts |-> <<>>,
     result |-> "", provID |-> "", err |-> <<>>]

\* No switch and no secret is stored; settled holds the namespaces whose
\* last publish succeeded with no switch or secret changed since.
NoCluster == [switches |-> <<>>, secrets |-> <<>>, edits |-> 0, settled |-> {}]

\* No reconcile of a switch request is under way.
NoPublish == <<>>

\* No secret event is pending, no request is queued and no secret event is
\* being mapped to requests.
NoUnits ==
    [events |-> {}, queue |-> {},
     mapped |-> [ran |-> FALSE, secret |-> <<>>, switches |-> <<>>,
                 listFails |-> FALSE, requests |-> [isNil |-> TRUE, items |-> <<>>]]]

\* No host declares an interface yet; each attachment is absent or stored.
InitGuard ==
    /\ hosts = [h \in HostIds |-> NewHost]
    /\ attachments \in [AttachmentIds -> {<<>>} \cup {<<sp>> : sp \in GuardSpecs}]
    /\ admission = NoAdmission
    /\ everRejected = {}
    /\ informer = NoInformer
    /\ validation = NoValidation
    /\ probe = NoProbe
    /\ pass = NoPass
    /\ everApplied = {}
    /\ prov = NoProv
    /\ ironic = NoIronic
    /\ call = NoCall
    /\ cluster = NoCluster
    /\ publish = NoPublish
    /\ units = NoUnits

----------------------------------------------------------------------------
(* Host spec edits *)

\* An administrator appends an interface to a host's spec.
AppendInterface(h, netIf) ==
    /\ ~validation.ran
    /\ ~pass.ran
    /\ Len(hosts[h].NetworkInterfaces) < MaxIfaces
    /\ hosts' = [hosts EXCEPT ![h].NetworkInterfaces = Append(@, netIf)]
    /\ UNCHANGED <<switchVars, attachments, admission, everRejected, validation, probe>>
    /\ UNCHANGED <<pass, everApplied, provVars>>

\* An administrator removes the i-th interface of a host's spec.
DropInterface(h, i) ==
    /\ ~validation.ran
    /\ ~pass.ran
    /\ i \in 1..Len(hosts[h].NetworkInterfaces)
    /\ hosts' = [hosts EXCEPT ![h].NetworkInterfaces =
                    SubSeq(@, 1, i - 1) \o SubSeq(@, i + 1, Len(@))]
    /\ UNCHANGED <<switchVars, attachments, admission, everRejected, validation, probe>>
    /\ UNCHANGED <<pass, everApplied, provVars>>

\* The edits where no webhook watches the hosts.
AddInterface(h, netIf) == AppendInterface(h, netIf) /\ UNCHANGED informer
RemoveInterface(h, i) == DropInterface(h, i) /\ UNCHANGED informer

----------------------------------------------------------------------------
(* Admission of attachment requests: the webhook answers the review from
   its informer cache, then the API server acts on the answer *)

\* Host writes the informer may be behind by.
MaxLag == 1

\* The API server queues the watch event of host h's write.
WatchEvent(h) ==
    /\ Len(informer.events) < MaxLag
    /\ informer' = [informer EXCEPT !.events = Append(@, <<h, hosts'[h]>>)]

\* The edits as the webhook's informer watches them.
AddReference(h, netIf) == AppendInterface(h, netIf) /\ WatchEvent(h)
RemoveReference(h, i) == DropInterface(h, i) /\ WatchEvent(h)

\* The informer applies the oldest watch event to its cache.
DeliverEvent ==
    /\ informer.events # <<>>
    /\ informer' = [hosts |-> [informer.hosts EXCEPT ![informer.events[1][1]] =
                                   informer.events[1][2]],
                    events |-> Tail(informer.events)]
    /\ UNCHANGED <<switchVars, hosts, attachments, admission, everRejected>>
    /\ UNCHANGED <<validation, probe, pass, everApplied, provVars>>

\* The objects a review may carry in place of the stored attachment.
ReviewObjects == GuardSpecs \cup {ForeignObject}

\* The webhook answers the review of a create request.
ReviewCreate(att, obj) ==
    /\ admission.op = "none"
    /\ attachments[att] = <<>>
    /\ admission' = [op |-> "create", att |-> att, oldObj |-> <<>>,
                     newObj |-> <<obj>>, listFails |-> FALSE,
                     resp |-> ValidateCreate(obj)]
    /\ UNCHANGED <<switchVars, hosts, attachments, everRejected, informer>>
    /\ UNCHANGED <<validation, probe, pass, everApplied, provVars>>

\* The webhook answers the review of an update request: the old object is
\* the stored one, the references are read from the informer cache.
ReviewUpdate(att, oldObj, newObj, listFails) ==
    LET resp == ValidateUpdate(informer.hosts, att, oldObj, newObj, listFails)
    IN  /\ admission.op = "none"
        /\ attachments[att] # <<>>
        /\ oldObj \in {attachments[att][1], ForeignObject}
        /\ admission' = [op |-> "update", att |-> att, oldObj |-> <<oldObj>>,
                         newObj |-> <<newObj>>, listFails |-> listFails, resp |-> resp]
        /\ everRejected' = IF /\ resp.err # <<>>
                              /\ ~listFails
                              /\ oldObj # ForeignObject
                              /\ newObj # ForeignObject
                              /\ oldObj # newObj
                              /\ validateAttachment(newObj) = <<>>
                           THEN everRejected \cup {att}
                           ELSE everRejected
        /\ UNCHANGED <<switchVars, hosts, attachments, informer>>
        /\ UNCHANGED <<validation, probe, pass, everApplied, provVars>>

\* The webhook answers the review of a delete request.
ReviewDelete(att, obj, listFails) ==
    LET resp == ValidateDelete(informer.hosts, att, obj, listFails)
    IN  /\ admission.op = "none"
        /\ attachments[att] # <<>>
        /\ obj \in {attachments[att][1], ForeignObject}
        /\ admission' = [op |-> "delete", att |-> att, oldObj |-> <<obj>>,
                         newObj |-> <<>>, listFails |-> listFails, resp |-> resp]
        /\ everRejected' = IF resp.err # <<>> /\ ~listFails /\ obj # ForeignObject
                           THEN everRejected \cup {att}
                           ELSE everRejected
        /\ UNCHANGED <<switchVars, hosts, attachments, informer>>
        /\ UNCHANGED <<validation, probe, pass, everApplied, provVars>>

\* The API server acts on an allowed review: it stores the created or
\* updated attachment or removes the deleted one.
Persist ==
    /\ admission.op # "none"
    /\ admission.resp.err = <<>>
    /\ attachments' = [attachments EXCEPT ![admission.att] = admission.newObj]
    /\ admission' = NoAdmission
    /\ UNCHANGED <<switchVars, hosts, everRejected, informer>>
    /\ UNCHANGED <<validation, probe, pass, everApplied, provVars>>

\* The API server refuses a request whose review returned an error.
Refuse ==
    /\ admission.op # "none"
    /\ admission.resp.err # <<>>
    /\ admission' = NoAdmission
    /\ UNCHANGED <<switchVars, hosts, attachments, everRejected, informer>>
    /\ UNCHANGED <<validation, probe, pass, everApplied, provVars>>

NextGuard ==
    \/ \E h \in HostIds, netIf \in GuardInterfaces : AddReference(h, netIf)
    \/ \E h \in HostIds, i \in 1..MaxIfaces : RemoveReference(h, i)
    \/ DeliverEvent
    \/ \E att \in AttachmentIds, obj \in ReviewObjects : ReviewCreate(att, obj)
    \/ \E att \in AttachmentIds, oldObj, newObj \in ReviewObjects, listFails \in BOOLEAN :
           ReviewUpdate(att, oldObj, newObj, listFails)
    \/ \E att \in AttachmentIds, obj \in ReviewObjects, listFails \in BOOLEAN :
           ReviewDelete(att, obj, listFails)
    \/ Persist
    \/ Refuse

SpecGuard == InitGuard /\ [][NextGuard]_vars

----------------------------------------------------------------------------
(* Properties of the reference guard, checked under SpecGuard *)

\* The attachment an interface of host h refers to: the ref's namespace,
\* else the host's, and the ref's name.
ResolvedAttachment(h, netIf) ==
    ObjectMeta(IF netIf.HostNetworkAttachment.Namespace = ""
               THEN h.Namespace ELSE netIf.HostNetworkAttachment.Namespace,
               netIf.HostNetworkAttachment.Name)

\* The interfaces of the hosts bmhs, as <<host, position>>, that refer to att.
ReferencingIn(bmhs, att) ==
    {hi \in HostIds \X (1..MaxIfaces) :
        /\ hi[2] <= Len(bmhs[hi[1]].NetworkInterfaces)
        /\ ResolvedAttachment(hi[1], bmhs[hi[1]].NetworkInterfaces[hi[2]]) = att}

\* The stored host interfaces that refer to att.
Referencing(att) == ReferencingIn(hosts, att)

\* How an error message names a host/interface pair of the hosts bmhs.
PairNameIn(bmhs, hi) ==
    hi[1].Namespace \o "/" \o hi[1].Name \o "[" \o
    bmhs[hi[1]].NetworkInterfaces[hi[2]].Name \o "]"

PairName(hi) == PairNameIn(hosts, hi)

Rejected == admission.resp.err # <<>>

\* The review in flight is an update of an attachment that changes its spec.
SpecChangingUpdate ==
    /\ admission.op = "update"
    /\ admission.oldObj[1] # ForeignObject
    /\ admission.newObj[1] # ForeignObject
    /\ admission.oldObj # admission.newObj

\* The review in flight is the delete of an attachment.
AttachmentDelete ==
    admission.op = "delete" /\ admission.oldObj[1] # ForeignObject

\* The step in which the webhook answers a review.
Answered == admission.op = "none" /\ admission'.op # "none"

\* What C1 says of a review just answered, the hosts being the stored ones.
UpdateDecisionFollowsReferences ==
    (SpecChangingUpdate /\ ~admission.listFails) =>
        /\ Referencing(admission.att) # {} =>
              /\ Rejected
              /\ Contains(admission.resp.err[1].msg, "immutable while referenced")
              /\ \A hi \in Referencing(admission.att) :
                     Contains(admission.resp.err[1].msg, PairName(hi))
        /\ (Referencing(admission.att) = {}
            /\ validateAttachment(admission.newObj[1]) = <<>>) => ~Rejected

\* C1: when a review is answered, an update that changes the spec is
\* rejected with an error containing "immutable while referenced" and naming
\* the referencing host/interface pairs whenever some host interface
\* references the attachment, and is admitted when the new spec is valid and
\* nothing references it (the lookup having succeeded; C5 covers a failed
\* lookup).
C1_UpdateRejectedWhenReferenced ==
    [][Answered => UpdateDecisionFollowsReferences']_vars

\* C2: in every step, an attachment that some host interface references
\* keeps its stored spec and is not deleted.
C2_NoChangeWhileReferenced ==
    [][\A att \in AttachmentIds :
          Referencing(att) # {} => attachments'[att] = attachments[att]]_vars

\* The lookup, run on the hosts the webhook's client holds, returns every
\* interface of those hosts whose resolved attachment is att.
LookupComplete ==
    \A att \in AttachmentIds :
        LET found == findBMHReferences(informer.hosts, att, FALSE).references
        IN  /\ Len(found) = Cardinality(ReferencingIn(informer.hosts, att))
            /\ \A hi \in ReferencingIn(informer.hosts, att) :
                   \E k \in 1..Len(found) : found[k] = PairNameIn(informer.hosts, hi)

\* A spec change or a delete of a referenced attachment is rejected.
ReferencedIsRejected ==
    ((SpecChangingUpdate \/ AttachmentDelete) /\ Referencing(admission.att) # {})
        => Rejected

\* C3: the lookup finds every host interface, in any host namespace, whose
\* resolved attachment is the attachment; hence a spec change or a delete of
\* an attachment referenced from anywhere is rejected when it is reviewed.
C3_LookupFindsEveryReference ==
    [][LookupComplete' /\ (Answered => ReferencedIsRejected')]_vars

\* C4: an update whose old and new spec are deep-equal returns no error,
\* whatever the references, the lookup's outcome and the spec's validity.
C4_UnchangedSpecAllowed ==
    (admission.op = "update" /\ admission.oldObj = admission.newObj
     /\ admission.oldObj[1] # ForeignObject) => ~Rejected

\* An unchanged, invalid spec of a referenced attachment, lookup failing.
C4_Witness ==
    /\ admission.op = "update"
    /\ admission.oldObj = admission.newObj
    /\ admission.oldObj[1] # ForeignObject
    /\ admission.listFails
    /\ validateAttachment(admission.newObj[1]) # <<>>
    /\ Len(findBMHReferences(informer.hosts, admission.att, FALSE).references) > 0
    /\ Referencing(admission.att) # {}
    /\ ~Rejected

\* C5: when the reference lookup fails, a spec-changing update and a delete
\* both return an error and the stored attachment stays as it was; no step
\* stores or removes an attachment on a review that returned an error.
C5_FailClosed ==
    [][/\ (((SpecChangingUpdate \/ AttachmentDelete) /\ admission.listFails) =>
              /\ Rejected
              /\ attachments[admission.att] = admission.oldObj)'
       /\ Rejected => attachments' = attachments]_vars

\* A valid spec change of an unreferenced attachment refused because the
\* lookup failed.
C5_Witness ==
    /\ SpecChangingUpdate
    /\ admission.listFails
    /\ validateAttachment(admission.newObj[1]) = <<>>
    /\ Referencing(admission.att) = {}
    /\ ReferencingIn(informer.hosts, admission.att) = {}
    /\ Rejected
    /\ Contains(admission.resp.err[1].msg, "failed to check BMH references")

\* What C6 says of a review just answered, the hosts being the stored ones.
DeleteDecisionFollowsReferences ==
    (AttachmentDelete /\ ~admission.listFails) =>
        /\ Rejected <=> Referencing(admission.att) # {}
        /\ Rejected =>
              /\ admission.resp.err[1].reason = "Forbidden"
              /\ Contains(admission.resp.err[1].msg,
                          "cannot delete attachment while referenced")
              /\ \A hi \in Referencing(admission.att) :
                     Contains(admission.resp.err[1].msg, PairName(hi))

\* C6: when a review is answered, a delete is rejected as Forbidden, with a
\* message containing "cannot delete attachment while referenced" and naming
\* the referencing pairs, if and only if some host interface references the
\* attachment; with no reference and a successful lookup it is allowed.
C6_DeleteRejectedIffReferenced ==
    [][Answered => DeleteDecisionFollowsReferences']_vars

\* A spec-changing update with a valid new spec, or a delete, of an
\* attachment that nothing references any more.
C7_Unreferenced ==
    /\ \/ SpecChangingUpdate /\ validateAttachment(admission.newObj[1]) = <<>>
       \/ AttachmentDelete
    /\ admission.att \in everRejected
    /\ Referencing(admission.att) = {}

\* C7 as stated: once the last reference is gone, a spec-changing update with
\* a valid new spec and a delete that were rejected before both succeed when
\* they are reviewed; the decision depends on nothing but the references at
\* admission time.
C7_SucceedsOnceUnreferenced ==
    [][Answered => (C7_Unreferenced => ~Rejected)']_vars

\* C7 amended: they succeed provided the reference lookup itself succeeds
\* and the hosts it reads no longer hold a reference either.
C7_SucceedsOnceUnreferencedAndLookedUp ==
    [][Answered =>
          ((/\ C7_Unreferenced
            /\ ~admission.listFails
            /\ ReferencingIn(informer.hosts, admission.att) = {}) => ~Rejected)']_vars

\* A formerly rejected update is allowed after the reference was removed
\* and the removal reached the webhook's client.
C7_Witness ==
    /\ C7_Unreferenced
    /\ admission.op = "update"
    /\ ~admission.listFails
    /\ informer.events = <<>>
    /\ ~Rejected

\* The lookup read hosts that still held a reference already removed, and
\* the request was refused.
StaleReferenceRefusedSeen ==
    /\ C7_Unreferenced
    /\ ~admission.listFails
    /\ ReferencingIn(informer.hosts, admission.att) # {}
    /\ Rejected

\* The lookup found no reference and the update was allowed; before the API
\* server stored it, a host of the attachment's own namespace declared a
\* reference, which the informer has seen by now.
ReferenceAddedAfterReviewSeen ==
    /\ SpecChangingUpdate
    /\ ~Rejected
    /\ informer.events = <<>>
    /\ \E hi \in Referencing(admission.att) : hi[1].Namespace = admission.att.Namespace

\* The step in which the webhook answers a review from a cache that is in
\* step with the stored hosts.
AnsweredInStep == Answered /\ informer.events = <<>> /\ informer.hosts = hosts

\* Not what the code does either: the update decision follows the
\* references when the cache is in step.
UpdateFollowsReferencesInStep ==
    [][AnsweredInStep => UpdateDecisionFollowsReferences']_vars

\* What holds of the code: answered from a cache in step, with the lookup
\* succeeding, a spec change or a delete of an attachment referenced by a
\* host of its own namespace is rejected.
OwnNamespaceReferenceRejected ==
    [][AnsweredInStep =>
          (((SpecChangingUpdate \/ AttachmentDelete)
            /\ ~admission.listFails
            /\ \E hi \in Referencing(admission.att) :
                   hi[1].Namespace = admission.att.Namespace) => Rejected)']_vars

----------------------------------------------------------------------------
(* Field validation of submitted attachments, on its own *)

VLANInputs == {-1, 0, 1, 4094, 4095}
MTUInputs  == {67, 68, 9000, 9001}
ModeInputs == {SwitchportModeAccess, SwitchportModeTrunk, SwitchportModeHybrid,
               "invalid-mode"}

ProbeSpecs ==
    [Mode : ModeInputs,
     NativeVLAN : VLANInputs,
     AllowedVLANs : {NilSlice} \cup {SliceOf(v) : v \in SeqsUpTo(VLANInputs, MaxVLANs)},
     MTU : {<<>>} \cup {<<m>> : m \in MTUInputs}]

InitValidate ==
    /\ hosts = [h \in HostIds |-> NewHost]
    /\ attachments = [att \in AttachmentIds |-> <<>>]
    /\ admission = NoAdmission
    /\ everRejected = {}
    /\ informer = NoInformer
    /\ validation = NoValidation
    /\ probe \in [done : {FALSE}, spec : ProbeSpecs, errs : {<<>>}]
    /\ pass = NoPass
    /\ everApplied = {}
    /\ prov = NoProv
    /\ ironic = NoIronic
    /\ call = NoCall
    /\ cluster = NoCluster
    /\ publish = NoPublish
    /\ units = NoUnits

\* The webhook validates the submitted attachment.
Validate ==
    /\ ~probe.done
    /\ probe' = [probe EXCEPT !.done = TRUE, !.errs = validateAttachment(probe.spec)]
    /\ UNCHANGED <<switchVars, hosts, attachments, admission, everRejected, informer, validation>>
    /\ UNCHANGED <<pass, everApplied, provVars>>

NextValidate == Validate

SpecValidate == InitValidate /\ [][NextValidate]_vars

OutOfRangeReported ==
    \E k \in 1..Len(probe.errs) : Contains(probe.errs[k].msg, "out of range")

VLANOutside(v) == v < 1 \/ v > 4094

SomeAllowedOutside ==
    \E k \in 1..Len(probe.spec.AllowedVLANs.items) :
        VLANOutside(probe.spec.AllowedVLANs.items[k])

MTUOutside ==
    probe.spec.MTU # <<>> /\ (probe.spec.MTU[1] < 68 \/ probe.spec.MTU[1] > 9000)

\* C8 as stated: for every attachment, validate returns an error containing
\* "out of range" iff nativeVLAN is outside [1,4094], or some allowedVLANs
\* entry is, or mtu is present and outside [68,9000], whatever the mode.
C8_OutOfRangeIffAnyFieldOutside ==
    probe.done =>
        (OutOfRangeReported <=>
            (VLANOutside(probe.spec.NativeVLAN) \/ SomeAllowedOutside \/ MTUOutside))

\* C8 amended: the VLAN ranges are checked only when the mode check passes:
\* for trunk and hybrid the allowedVLANs entries and nativeVLAN, for access
\* with no allowedVLANs the nativeVLAN; the mtu range is checked always.
C8_OutOfRangeIffCheckedFieldOutside ==
    probe.done =>
        (OutOfRangeReported <=>
            \/ MTUOutside
            \/ /\ probe.spec.Mode \in {"trunk", "hybrid"}
               /\ SomeAllowedOutside \/ VLANOutside(probe.spec.NativeVLAN)
            \/ /\ probe.spec.Mode = "access"
               /\ Len(probe.spec.AllowedVLANs.items) = 0
               /\ VLANOutside(probe.spec.NativeVLAN))

\* Trunk mode, allowed VLANs in range, nativeVLAN 4095, no mtu: reported.
C8_Witness ==
    /\ probe.done
    /\ probe.spec.Mode = "trunk"
    /\ probe.spec.NativeVLAN = 4095
    /\ Len(probe.spec.AllowedVLANs.items) = MaxVLANs
    /\ ~SomeAllowedOutside
    /\ probe.spec.MTU = <<>>
    /\ OutOfRangeReported

\* The switchport fields of the submitted attachment follow the rules: a
\* known mode, no allowedVLANs in access mode, every allowedVLANs entry in
\* range in trunk and hybrid mode, nativeVLAN in range.
SwitchportAcceptable ==
    /\ probe.spec.Mode \in {"access", "trunk", "hybrid"}
    /\ probe.spec.Mode = "access" => Len(probe.spec.AllowedVLANs.items) = 0
    /\ probe.spec.Mode \in {"trunk", "hybrid"} => ~SomeAllowedOutside
    /\ ~VLANOutside(probe.spec.NativeVLAN)

\* C34: validateAttachment returns an empty error list if and only if the
\* mode is access, trunk or hybrid, allowedVLANs is empty in access mode,
\* every allowedVLANs entry is in [1,4094] in trunk and hybrid mode,
\* nativeVLAN is in [1,4094] and mtu is absent or in [68,9000]; the MTU
\* check runs even when the switchport check failed, both errors being
\* returned together, the switchport error first.
C34_EmptyIffAcceptableAndBothErrors ==
    probe.done =>
        /\ (probe.errs = <<>>) <=> (SwitchportAcceptable /\ ~MTUOutside)
        /\ Len(probe.errs) =
               (IF SwitchportAcceptable THEN 0 ELSE 1) + (IF MTUOutside THEN 1 ELSE 0)
        /\ (~SwitchportAcceptable /\ MTUOutside) =>
               /\ ~Contains(probe.errs[1].msg, "MTU")
               /\ Contains(probe.errs[2].msg, "MTU")

\* Access mode with an allowedVLANs entry and an mtu of 9001: two errors.
C34_Witness ==
    /\ probe.done
    /\ probe.spec.Mode = "access"
    /\ Len(probe.spec.AllowedVLANs.items) = 1
    /\ probe.spec.MTU = <<9001>>
    /\ Len(probe.errs) = 2
    /\ probe.errs[1].msg = "allowedVlans cannot be specified for access mode"
    /\ probe.errs[2].msg = "MTU 9001 is out of range (68-9000)"

\* Hybrid mode with allowedVLANs 1 and 4094, nativeVLAN 1, mtu 68: accepted.
C34_WitnessAccepted ==
    /\ probe.done
    /\ probe.spec.Mode = "hybrid"
    /\ probe.spec.AllowedVLANs.items = <<1, 4094>>
    /\ probe.spec.NativeVLAN = 1
    /\ probe.spec.MTU = <<68>>
    /\ probe.errs = <<>>

----------------------------------------------------------------------------
(* Interface validator (host controller) *)

ConditionNetworkInterfacesValid == "NetworkInterfacesValid"

\* NIC: a discovered network interface
NIC(name, mac) == [Name |-> name, MAC |-> mac]

\* meta.FindStatusCondition: the position of the condition, 0 for nil
FindStatusCondition(conditions, conditionType) ==
    IF \E i \in 1..Len(conditions) : conditions[i].Type = conditionType
    THEN CHOOSE i \in 1..Len(conditions) :
             /\ conditions[i].Type = conditionType
             /\ \A j \in 1..(i - 1) : conditions[j].Type # conditionType
    ELSE 0

\* meta.SetStatusCondition: overwrite status, reason and message of the
\* existing condition of that type, else append the new condition
SetStatusCondition(conditions, newCondition) ==
    LET i == FindStatusCondition(conditions, newCondition.Type)
    IN  IF i = 0 THEN Append(conditions, newCondition)
        ELSE [conditions EXCEPT ![i] = newCondition]

\* meta.RemoveStatusCondition
RemoveStatusCondition(conditions, conditionType) ==
    SelectSeq(conditions, LAMBDA c : c.Type # conditionType)

\* isHardwareDiscoveryComplete: HardwareDetails is not nil
isHardwareDiscoveryComplete(bmh) == bmh.HardwareDetails # <<>>

\* The map of valid keys with names alone, MAC addresses left out
\* (fault injection).
AvailableNICs_namesOnly(nics) ==
    {nics[i].Name : i \in {j \in 1..Len(nics) : nics[j].Name # ""}}

\* The map built at the head of performNetworkInterfaceValidation: every
\* non-empty NIC name and every non-empty NIC MAC is a valid key.
AvailableNICs(nics) ==
    {nics[i].Name : i \in {j \in 1..Len(nics) : nics[j].Name # ""}}
    \cup {nics[i].MAC : i \in {j \in 1..Len(nics) : nics[j].MAC # ""}}

\* getAvailableNICNames: the non-empty NIC names, sorted
getAvailableNICNames(nics) ==
    LET names == [i \in 1..Len(nics) |-> nics[i].Name]
    IN  SortStrings(SelectSeq(names, LAMBDA n : n # ""))

\* setNetworkInterfaceValidation writing the condition on every call
\* (fault injection).
setNetworkInterfaceValidation_alwaysWrites(bmh, status, reason, message) ==
    [host |-> [bmh EXCEPT !.Conditions =
                  SetStatusCondition(@,
                      [Type |-> ConditionNetworkInterfacesValid,
                       Status |-> status, Reason |-> reason,
                       Message |-> message])],
     dirty |-> TRUE]

\* setNetworkInterfaceValidation: nothing is written, and the call is not
\* dirty, when a condition with this status and reason is already there.
setNetworkInterfaceValidation(bmh, status, reason, message) ==
    LET i == FindStatusCondition(bmh.Conditions, ConditionNetworkInterfacesValid)
    IN  IF i # 0 /\ bmh.Conditions[i].Status = status /\ bmh.Conditions[i].Reason = reason
        THEN [host |-> bmh, dirty |-> FALSE]
        ELSE [host |-> [bmh EXCEPT !.Conditions =
                          SetStatusCondition(@,
                              [Type |-> ConditionNetworkInterfacesValid,
                               Status |-> status, Reason |-> reason,
                               Message |-> message])],
              dirty |-> TRUE]

\* clearNetworkInterfaceValidation never reporting dirty (fault injection).
clearNetworkInterfaceValidation_neverDirty(bmh) ==
    [host |-> [bmh EXCEPT !.Conditions =
                  RemoveStatusCondition(@, ConditionNetworkInterfacesValid)],
     dirty |-> FALSE]

\* clearNetworkInterfaceValidation: remove the condition; dirty when there
\* was one to remove.
clearNetworkInterfaceValidation(bmh) ==
    IF FindStatusCondition(bmh.Conditions, ConditionNetworkInterfacesValid) # 0
    THEN [host |-> [bmh EXCEPT !.Conditions =
                       RemoveStatusCondition(@, ConditionNetworkInterfacesValid)],
          dirty |-> TRUE]
    ELSE [host |-> bmh, dirty |-> FALSE]

\* performNetworkInterfaceValidation: each declared interface's key is looked
\* up among the valid keys; any miss gives False/InvalidInterfaceNames with
\* the invalid keys and the available names, none gives
\* True/AllInterfacesValid.
performNetworkInterfaceValidation(bmh) ==
    LET nics == bmh.HardwareDetails[1].NIC
        availableNICs == AvailableNICs(nics)
        keys == [i \in 1..Len(bmh.NetworkInterfaces) |-> GetKey(bmh.NetworkInterfaces[i])]
        invalidInterfaces == SelectSeq(keys, LAMBDA k : k \notin availableNICs)
        availableNames == getAvailableNICNames(nics)
        message ==
            IF Len(availableNames) = 0
            THEN "Invalid interface names: " \o Join(invalidInterfaces, ", ")
                 \o ". No network interfaces discovered on this host."
            ELSE "Invalid interface names: " \o Join(invalidInterfaces, ", ")
                 \o ". Available interfaces: " \o Join(availableNames, ", ")
    IN  IF Len(invalidInterfaces) > 0
        THEN setNetworkInterfaceValidation(bmh, "False", "InvalidInterfaceNames", message)
        ELSE setNetworkInterfaceValidation(bmh, "True", "AllInterfacesValid",
                                           "All network interfaces are valid")

\* validateNetworkInterfaces: with no declared interface, or before hardware
\* discovery is complete, the condition is cleared; otherwise validate.
validateNetworkInterfaces(bmh) ==
    IF Len(bmh.NetworkInterfaces) = 0
    THEN clearNetworkInterfaceValidation(bmh)
    ELSE IF ~isHardwareDiscoveryComplete(bmh)
    THEN clearNetworkInterfaceValidation(bmh)
    ELSE performNetworkInterfaceValidation(bmh)

----------------------------------------------------------------------------
(* The host controller validating one host while its spec is edited and *)
(* its hardware is inspected                                            *)

\* The NICs inspection may report; a NIC may lack a name or a MAC.
NICInputs ==
    {NIC("eth0", "00:11:22:33:44:55"), NIC("", "00:11:22:33:44:66"), NIC("eth1", "")}

\* HardwareDetails: nil before inspection, else the discovered NIC list
HardwareInputs ==
    {<<>>} \cup {<<[NIC |-> nics]>> : nics \in SeqsUpTo(NICInputs, MaxNICs)}

\* Interfaces a host may declare, by name or by MAC address.
HostInterfaces ==
    {NetworkInterface("eth0", "", AttachmentRef("net-a", "")),
     NetworkInterface("eth9", "", AttachmentRef("net-a", "")),
     NetworkInterface("", "00:11:22:33:44:66", AttachmentRef("net-a", ""))}

\* The host the controller reconciles.
TheHost == HostOrder[1]

InitHost ==
    /\ hosts = [h \in HostIds |-> NewHost]
    /\ attachments = [att \in AttachmentIds |-> <<>>]
    /\ admission = NoAdmission
    /\ everRejected = {}
    /\ informer = NoInformer
    /\ validation = NoValidation
    /\ probe = NoProbe
    /\ pass = NoPass
    /\ everApplied = {}
    /\ prov = NoProv
    /\ ironic = NoIronic
    /\ call = NoCall
    /\ cluster = NoCluster
    /\ publish = NoPublish
    /\ units = NoUnits

\* Inspection stores, replaces or (on re-inspection) resets the hardware details.
Inspect(h, hw) ==
    /\ ~validation.ran
    /\ ~pass.ran
    /\ hosts[h].HardwareDetails # hw
    /\ hosts' = [hosts EXCEPT ![h].HardwareDetails = hw]
    /\ UNCHANGED <<switchVars, attachments, admission, everRejected, informer, validation, probe>>
    /\ UNCHANGED <<pass, everApplied, provVars>>

\* The first step of manageSwitchPortConfigs: validate the interfaces.
ValidateInterfaces(h) ==
    LET res == validateNetworkInterfaces(hosts[h])
    IN  /\ ~validation.ran
        /\ hosts' = [hosts EXCEPT ![h] = res.host]
        /\ validation' = [ran |-> TRUE, host |-> h, before |-> hosts[h],
                          dirty |-> res.dirty]
        /\ UNCHANGED <<switchVars, attachments, admission, everRejected, informer, probe>>
        /\ UNCHANGED <<pass, everApplied, provVars>>

\* The call returns to the reconciler.
ValidateReturn ==
    /\ validation.ran
    /\ validation' = NoValidation
    /\ UNCHANGED <<switchVars, hosts, attachments, admission, everRejected, informer, probe>>
    /\ UNCHANGED <<pass, everApplied, provVars>>

NextHost ==
    \/ \E netIf \in HostInterfaces : AddInterface(TheHost, netIf)
    \/ \E i \in 1..MaxIfaces : RemoveInterface(TheHost, i)
    \/ \E hw \in HardwareInputs : Inspect(TheHost, hw)
    \/ ValidateInterfaces(TheHost)
    \/ ValidateReturn

SpecHost == InitHost /\ [][NextHost]_vars

----------------------------------------------------------------------------
(* Properties of the interface validator, checked under SpecHost *)

\* The NetworkInterfacesValid condition of a host object, <<>> if absent.
ValidCondition(bmh) ==
    SelectSeq(bmh.Conditions, LAMBDA c : c.Type = "NetworkInterfacesValid")

HasCondition(bmh, status, reason) ==
    /\ Len(ValidCondition(bmh)) = 1
    /\ ValidCondition(bmh)[1].Status = status
    /\ ValidCondition(bmh)[1].Reason = reason

\* Every declared interface's key is the name or the MAC of a discovered NIC.
EveryKeyDiscovered(bmh) ==
    \A i \in 1..Len(bmh.NetworkInterfaces) :
        LET netIf == bmh.NetworkInterfaces[i]
            key == IF netIf.Name # "" THEN netIf.Name ELSE netIf.MACAddress
        IN  \E k \in 1..Len(bmh.HardwareDetails[1].NIC) :
                \/ key = bmh.HardwareDetails[1].NIC[k].Name
                \/ key = bmh.HardwareDetails[1].NIC[k].MAC

\* The validator ran on a host with hardware details and declared interfaces.
ValidatedAgainstHardware ==
    /\ validation.ran
    /\ validation.before.HardwareDetails # <<>>
    /\ Len(validation.before.NetworkInterfaces) > 0

\* C9: with hardware details and at least one declared interface, the
\* validator leaves True/AllInterfacesValid iff every declared interface's
\* key is the name or the MAC of a discovered NIC, and
\* False/InvalidInterfaceNames otherwise.
C9_ValidIffEveryKeyDiscovered ==
    ValidatedAgainstHardware =>
        IF EveryKeyDiscovered(validation.before)
        THEN HasCondition(hosts[validation.host], "True", "AllInterfacesValid")
        ELSE HasCondition(hosts[validation.host], "False", "InvalidInterfaceNames")

\* Two interfaces, one matched by name and one by the MAC of a nameless NIC.
C9_Witness ==
    /\ ValidatedAgainstHardware
    /\ Len(validation.before.NetworkInterfaces) = 2
    /\ \E i \in 1..2 : validation.before.NetworkInterfaces[i].Name = ""
    /\ \E i \in 1..2 : validation.before.NetworkInterfaces[i].Name # ""
    /\ HasCondition(hosts[validation.host], "True", "AllInterfacesValid")
    /\ validation.dirty

\* The validator ran on a host with declared interfaces and no hardware details.
ValidatedBeforeDiscovery ==
    /\ validation.ran
    /\ validation.before.HardwareDetails = <<>>
    /\ Len(validation.before.NetworkInterfaces) > 0

\* C10 as stated: with declared interfaces and no hardware details the
\* validator clears the condition and reports not dirty, whatever condition
\* was there before.
C10_ClearedNotDirty ==
    ValidatedBeforeDiscovery =>
        /\ ValidCondition(hosts[validation.host]) = <<>>
        /\ ~validation.dirty

\* C10 amended: it clears the condition and reports dirty exactly when a
\* condition was there to remove.
C10_ClearedDirtyIffRemoved ==
    ValidatedBeforeDiscovery =>
        /\ ValidCondition(hosts[validation.host]) = <<>>
        /\ validation.dirty <=> ValidCondition(validation.before) # <<>>

\* A condition set by an earlier pass is removed after hardware details were reset.
C10_Witness ==
    /\ ValidatedBeforeDiscovery
    /\ ValidCondition(validation.before) # <<>>
    /\ ValidCondition(hosts[validation.host]) = <<>>
    /\ validation.dirty

\* C11: the interface validator is idempotent: run again on the host as a
\* run left it, spec and hardware unchanged, it reports not dirty and leaves
\* the host's status as it is.
C11_SecondRunChangesNothing ==
    validation.ran =>
        validateNetworkInterfaces(hosts[validation.host])
            = [host |-> hosts[validation.host], dirty |-> FALSE]

\* A first run that wrote False/InvalidInterfaceNames over a True condition.
C11_Witness ==
    /\ validation.ran
    /\ validation.dirty
    /\ HasCondition(validation.before, "True", "AllInterfacesValid")
    /\ HasCondition(hosts[validation.host], "False", "InvalidInterfaceNames")

\* The declared keys of a host that no discovered NIC carries as name or MAC.
InvalidKeys(bmh) ==
    LET keys == [i \in 1..Len(bmh.NetworkInterfaces) |->
                    IF bmh.NetworkInterfaces[i].Name # ""
                    THEN bmh.NetworkInterfaces[i].Name
                    ELSE bmh.NetworkInterfaces[i].MACAddress]
        nics == bmh.HardwareDetails[1].NIC
    IN  SelectSeq(keys, LAMBDA key :
            \A k \in 1..Len(nics) : key # nics[k].Name /\ key # nics[k].MAC)

\* The message for a host with invalid interfaces: the invalid keys, then
\* the sorted non-empty NIC names or the note that none was discovered.
InvalidMessage(bmh) ==
    LET nics == bmh.HardwareDetails[1].NIC
        names == SortStrings(SelectSeq([k \in 1..Len(nics) |-> nics[k].Name],
                                       LAMBDA n : n # ""))
    IN  "Invalid interface names: " \o Join(InvalidKeys(bmh), ", ")
        \o (IF names = <<>>
            THEN ". No network interfaces discovered on this host."
            ELSE ". Available interfaces: " \o Join(names, ", "))

\* C12: after the validator ran on a host with hardware details and an
\* invalid declared interface, the False/InvalidInterfaceNames condition's
\* message lists the invalid keys of the current spec and the sorted
\* discovered NIC names, whatever edits and runs came before.
C12_MessageListsCurrentInvalidKeys ==
    (ValidatedAgainstHardware /\ ~EveryKeyDiscovered(validation.before)) =>
        /\ HasCondition(hosts[validation.host], "False", "InvalidInterfaceNames")
        /\ ValidCondition(hosts[validation.host])[1].Message
               = InvalidMessage(hosts[validation.host])

----------------------------------------------------------------------------
(* Drift detector, attachment resolver and the apply step (host controller) *)

\* allowedPortUpdateStates: the host states in which ports may be updated
allowedPortUpdateStates ==
    {StateRegistering, StatePreparing, StateAvailable, StateInspecting}

\* Every state counted as allowing port updates (fault injection).
ironicAllowsPortUpdates_always(bmh) == bmh.State = bmh.State

\* ironicAllowsPortUpdates
ironicAllowsPortUpdates(bmh) == bmh.State \in allowedPortUpdateStates

\* networkInterfaceValidationPassed: the condition is present and True
networkInterfaceValidationPassed(bmh) ==
    LET i == FindStatusCondition(bmh.Conditions, ConditionNetworkInterfacesValid)
    IN  i # 0 /\ bmh.Conditions[i].Status = "True"

\* The drift check comparing the two lists as sets, blind to their order
\* (fault injection).
switchPortConfigurationNeedsUpdate_unordered(bmh) ==
    LET declared == bmh.NetworkInterfaces
        applied == bmh.AppliedNetworkInterfaces
    IN  IF Len(declared) = 0
        THEN IF Len(applied.items) > 0
             THEN [needsUpdate |-> TRUE, reason |-> "NetworkInterfacesRemoved"]
             ELSE [needsUpdate |-> FALSE, reason |-> ""]
        ELSE IF ~networkInterfaceValidationPassed(bmh)
        THEN [needsUpdate |-> FALSE, reason |-> ""]
        ELSE IF applied.isNil
        THEN [needsUpdate |-> TRUE, reason |-> "InitialConfiguration"]
        ELSE IF {declared[i] : i \in 1..Len(declared)}
                    # {applied.items[i] : i \in 1..Len(applied.items)}
        THEN [needsUpdate |-> TRUE, reason |-> "NetworkInterfaceSpecChanged"]
        ELSE [needsUpdate |-> FALSE, reason |-> ""]

\* The drift check asking for the initial configuration before it looks at
\* the validation condition (fault injection).
switchPortConfigurationNeedsUpdate_unsetFirst(bmh) ==
    LET declared == bmh.NetworkInterfaces
        applied == bmh.AppliedNetworkInterfaces
    IN  IF Len(declared) = 0
        THEN IF Len(applied.items) > 0
             THEN [needsUpdate |-> TRUE, reason |-> "NetworkInterfacesRemoved"]
             ELSE [needsUpdate |-> FALSE, reason |-> ""]
        ELSE IF applied.isNil
        THEN [needsUpdate |-> TRUE, reason |-> "InitialConfiguration"]
        ELSE IF ~networkInterfaceValidationPassed(bmh)
        THEN [needsUpdate |-> FALSE, reason |-> ""]
        ELSE IF declared # applied.items
        THEN [needsUpdate |-> TRUE, reason |-> "NetworkInterfaceSpecChanged"]
        ELSE [needsUpdate |-> FALSE, reason |-> ""]

\* The drift check without the validation gate: the lists are compared
\* whatever the NetworkInterfacesValid condition says (fault injection).
switchPortConfigurationNeedsUpdate_ungated(bmh) ==
    LET declared == bmh.NetworkInterfaces
        applied == bmh.AppliedNetworkInterfaces
    IN  IF Len(declared) = 0
        THEN IF Len(applied.items) > 0
             THEN [needsUpdate |-> TRUE, reason |-> "NetworkInterfacesRemoved"]
             ELSE [needsUpdate |-> FALSE, reason |-> ""]
        ELSE IF applied.isNil
        THEN [needsUpdate |-> TRUE, reason |-> "InitialConfiguration"]
        ELSE IF declared # applied.items
        THEN [needsUpdate |-> TRUE, reason |-> "NetworkInterfaceSpecChanged"]
        ELSE [needsUpdate |-> FALSE, reason |-> ""]

\* switchPortConfigurationNeedsUpdate: the rules in the order of the code;
\* reflect.DeepEqual on two non-empty slices is equality of sequences.
switchPortConfigurationNeedsUpdate(bmh) ==
    LET declared == bmh.NetworkInterfaces
        applied == bmh.AppliedNetworkInterfaces
    IN  IF Len(declared) = 0
        THEN IF Len(applied.items) > 0
             THEN [needsUpdate |-> TRUE, reason |-> "NetworkInterfacesRemoved"]
             ELSE [needsUpdate |-> FALSE, reason |-> ""]
        ELSE IF ~networkInterfaceValidationPassed(bmh)
        THEN [needsUpdate |-> FALSE, reason |-> ""]
        ELSE IF applied.isNil
        THEN [needsUpdate |-> TRUE, reason |-> "InitialConfiguration"]
        ELSE IF declared # applied.items
        THEN [needsUpdate |-> TRUE, reason |-> "NetworkInterfaceSpecChanged"]
        ELSE [needsUpdate |-> FALSE, reason |-> ""]

\* provisioner.SwitchPortConfig built from an attachment's spec
SwitchPortConfig(spec) ==
    [Mode |-> spec.Mode, NativeVLAN |-> spec.NativeVLAN,
     AllowedVLANs |-> spec.AllowedVLANs, MTU |-> spec.MTU]

\* configs[key] = config on a Go map; the empty map is <<>>
MapPut(configs, key, config) ==
    [k \in DOMAIN configs \cup {key} |-> IF k = key THEN config ELSE configs[k]]

\* The error a failing Get returns when it is not a not-found error.
GetError == NewError("connection refused")

\* The loop of resolveSwitchPortConfigs from interface i on. getFails holds
\* the positions whose Get fails with an error other than not-found; a nil
\* map is <<>> in the configs field, a map m is <<m>>.
RECURSIVE ResolveFrom(_, _, _, _, _, _)
ResolveFrom(hostMeta, netIfs, atts, getFails, i, configs) ==
    IF i > Len(netIfs) THEN [configs |-> <<configs>>, err |-> <<>>]
    ELSE LET ref == netIfs[i].HostNetworkAttachment
             attachmentNS == IF ref.Namespace = "" THEN hostMeta.Namespace
                             ELSE ref.Namespace
             id == ObjectMeta(attachmentNS, ref.Name)
         IN  IF i \in getFails
             THEN [configs |-> <<>>,
                   err |-> <<Wrap("failed to get network attachment "
                                  \o attachmentNS \o "/" \o ref.Name \o ": ",
                                  GetError)>>]
             ELSE IF id \notin DOMAIN atts \/ atts[id] = <<>>
             THEN ResolveFrom(hostMeta, netIfs, atts, getFails, i + 1, configs)
             ELSE ResolveFrom(hostMeta, netIfs, atts, getFails, i + 1,
                              MapPut(configs, GetKey(netIfs[i]),
                                     SwitchPortConfig(atts[id][1])))

\* The resolver keying every entry by the interface name alone
\* (fault injection).
resolveSwitchPortConfigs_byName(hostMeta, bmh, atts, getFails) ==
    ResolveFrom(hostMeta,
                [i \in 1..Len(bmh.NetworkInterfaces) |->
                    [bmh.NetworkInterfaces[i] EXCEPT !.MACAddress = ""]],
                atts, getFails, 1, <<>>)

\* resolveSwitchPortConfigs
resolveSwitchPortConfigs(hostMeta, bmh, atts, getFails) ==
    ResolveFrom(hostMeta, bmh.NetworkInterfaces, atts, getFails, 1, <<>>)

\* The error the provisioner returns when it rejects a configuration.
SetError == NewError("provisioner unavailable")

\* Provisioner.SetSwitchPortConfigs: rejects, or keeps the map as the
\* host's switch-port configurations.
SetSwitchPortConfigs(p, configs, fails) ==
    IF fails THEN [prov |-> p, err |-> <<SetError>>]
    ELSE [prov |-> [p EXCEPT !.switchPortConfigs = configs], err |-> <<>>]

\* The apply step storing the applied snapshot before the provisioner has
\* accepted the configuration (fault injection).
applySwitchPortConfigs_snapshotFirst(hostMeta, bmh, atts, p, getFails, provFails) ==
    LET unchanged == [host |-> bmh, prov |-> p, dirty |-> FALSE, err |-> <<>>,
                      resolved |-> <<>>, calls |-> <<>>]
        cleared == SetSwitchPortConfigs(p, <<>>, provFails)
        resolved == resolveSwitchPortConfigs(hostMeta, bmh, atts, getFails)
        pushed == SetSwitchPortConfigs(p, resolved.configs[1], provFails)
    IN  IF ~switchPortConfigurationNeedsUpdate(bmh).needsUpdate THEN unchanged
        ELSE IF ~ironicAllowsPortUpdates(bmh) THEN unchanged
        ELSE IF Len(bmh.NetworkInterfaces) = 0
        THEN IF cleared.err # <<>>
             THEN [unchanged EXCEPT
                     !.err = <<Wrap("failed to clear switch port configurations: ",
                                    cleared.err[1])>>,
                     !.calls = << <<>> >>]
             ELSE [host |-> [bmh EXCEPT !.AppliedNetworkInterfaces = NilSlice],
                   prov |-> cleared.prov, dirty |-> TRUE, err |-> <<>>,
                   resolved |-> <<>>, calls |-> << <<>> >>]
        ELSE IF resolved.err # <<>>
        THEN [unchanged EXCEPT
                !.err = <<Wrap("failed to resolve switch port configurations: ",
                               resolved.err[1])>>,
                !.resolved = <<resolved>>]
        ELSE IF pushed.err # <<>>
        THEN [unchanged EXCEPT
                !.err = <<Wrap("failed to apply switch port configuration to ports: ",
                               pushed.err[1])>>,
                !.resolved = <<resolved>>,
                !.calls = <<resolved.configs[1]>>,
                !.host = [bmh EXCEPT !.AppliedNetworkInterfaces =
                                        SliceOf(bmh.NetworkInterfaces)]]
        ELSE [host |-> [bmh EXCEPT !.AppliedNetworkInterfaces =
                                      SliceOf(bmh.NetworkInterfaces)],
              prov |-> pushed.prov, dirty |-> TRUE, err |-> <<>>,
              resolved |-> <<resolved>>, calls |-> <<resolved.configs[1]>>]

\* applySwitchPortConfigs: nothing to do unless an update is due and the
\* state allows it; an empty spec clears the provisioner's configurations
\* and resets the snapshot to nil; otherwise resolve, push, and store a copy
\* of the declared list as the applied snapshot.
applySwitchPortConfigs(hostMeta, bmh, atts, p, getFails, provFails) ==
    LET unchanged == [host |-> bmh, prov |-> p, dirty |-> FALSE, err |-> <<>>,
                      resolved |-> <<>>, calls |-> <<>>]
        cleared == SetSwitchPortConfigs(p, <<>>, provFails)
        resolved == resolveSwitchPortConfigs(hostMeta, bmh, atts, getFails)
        pushed == SetSwitchPortConfigs(p, resolved.configs[1], provFails)
    IN  IF ~switchPortConfigurationNeedsUpdate(bmh).needsUpdate THEN unchanged
        ELSE IF ~ironicAllowsPortUpdates(bmh) THEN unchanged
        ELSE IF Len(bmh.NetworkInterfaces) = 0
        THEN IF cleared.err # <<>>
             THEN [unchanged EXCEPT
                     !.err = <<Wrap("failed to clear switch port configurations: ",
                                    cleared.err[1])>>,
                     !.calls = << <<>> >>]
             ELSE [host |-> [bmh EXCEPT !.AppliedNetworkInterfaces = NilSlice],
                   prov |-> cleared.prov, dirty |-> TRUE, err |-> <<>>,
                   resolved |-> <<>>, calls |-> << <<>> >>]
        ELSE IF resolved.err # <<>>
        THEN [unchanged EXCEPT
                !.err = <<Wrap("failed to resolve switch port configurations: ",
                               resolved.err[1])>>,
                !.resolved = <<resolved>>]
        ELSE IF pushed.err # <<>>
        THEN [unchanged EXCEPT
                !.err = <<Wrap("failed to apply switch port configuration to ports: ",
                               pushed.err[1])>>,
                !.resolved = <<resolved>>,
                !.calls = <<resolved.configs[1]>>]
        ELSE [host |-> [bmh EXCEPT !.AppliedNetworkInterfaces =
                                      SliceOf(bmh.NetworkInterfaces)],
              prov |-> pushed.prov, dirty |-> TRUE, err |-> <<>>,
              resolved |-> <<resolved>>, calls |-> <<resolved.configs[1]>>]

----------------------------------------------------------------------------
(* Host-reconciliation passes over one host: validate, then apply, while *)
(* the spec is edited, hardware is inspected and the state moves on      *)

HybridSpec ==
    [Mode |-> SwitchportModeHybrid, NativeVLAN |-> 10,
     AllowedVLANs |-> SliceOf(<<10, 20>>), MTU |-> <<1500>>]

\* Interfaces the host may declare: by name, by MAC, towards the host's own
\* namespace and towards another one; eth9 is no discovered NIC.
ApplyInterfaces ==
    {NetworkInterface("eth0", "", AttachmentRef("net-a", "")),
     NetworkInterface("", "00:11:22:33:44:66", AttachmentRef("net-a", "ns2")),
     NetworkInterface("eth9", "", AttachmentRef("net-a", ""))}

\* What inspection may report.
ApplyHardware ==
    {<<>>,
     <<[NIC |-> <<NIC("eth0", "00:11:22:33:44:55"), NIC("eth1", "00:11:22:33:44:66")>>]>>}

\* The provisioning states the host moves through.
StateInputs == allowedPortUpdateStates \cup {StateProvisioning, StateProvisioned}

\* Each attachment is absent or stored; nothing was applied yet.
InitApply ==
    /\ hosts = [h \in HostIds |-> NewHost]
    /\ attachments \in {f \in [AttachmentIds -> {<<>>, <<AccessSpec>>, <<HybridSpec>>}] :
                           f[AttachmentOrder[1]] # <<HybridSpec>>
                           /\ f[AttachmentOrder[2]] # <<AccessSpec>>}
    /\ admission = NoAdmission
    /\ everRejected = {}
    /\ informer = NoInformer
    /\ validation = NoValidation
    /\ probe = NoProbe
    /\ pass = NoPass
    /\ everApplied = {}
    /\ prov = NoProv
    /\ ironic = NoIronic
    /\ call = NoCall
    /\ cluster = NoCluster
    /\ publish = NoPublish
    /\ units = NoUnits

\* The host's provisioning state changes.
SetState(h, state) ==
    /\ ~validation.ran
    /\ ~pass.ran
    /\ hosts[h].State # state
    /\ hosts' = [hosts EXCEPT ![h].State = state]
    /\ UNCHANGED <<switchVars, attachments, admission, everRejected, informer, validation, probe>>
    /\ UNCHANGED <<pass, everApplied, provVars>>

\* The second step of manageSwitchPortConfigs, reached when validation
\* reported not dirty: apply the switch-port configurations.
ApplyConfigs(h, getFails, provFails) ==
    LET res == applySwitchPortConfigs(h, hosts[h], attachments, prov, getFails, provFails)
    IN  /\ validation.ran
        /\ validation.host = h
        /\ ~validation.dirty
        /\ ~pass.ran
        /\ hosts' = [hosts EXCEPT ![h] = res.host]
        /\ prov' = res.prov
        /\ pass' = [ran |-> TRUE, host |-> h, before |-> hosts[h],
                    dirty |-> res.dirty, err |-> res.err,
                    resolved |-> res.resolved, calls |-> res.calls]
        /\ everApplied' = IF res.dirty THEN everApplied \cup {h} ELSE everApplied
        /\ UNCHANGED <<switchVars, attachments, admission, everRejected, informer, validation, probe,
                       ironic, call>>

\* manageSwitchPortConfigs returns its action result to the reconciler.
PassReturn ==
    /\ validation.ran
    /\ validation.dirty \/ pass.ran
    /\ validation' = NoValidation
    /\ pass' = NoPass
    /\ UNCHANGED <<switchVars, hosts, attachments, admission, everRejected, informer, probe,
                   everApplied, provVars>>

NextApply ==
    \/ \E netIf \in ApplyInterfaces : AddInterface(TheHost, netIf)
    \/ \E i \in 1..MaxIfaces : RemoveInterface(TheHost, i)
    \/ \E hw \in ApplyHardware : Inspect(TheHost, hw)
    \/ \E state \in StateInputs : SetState(TheHost, state)
    \/ ValidateInterfaces(TheHost)
    \/ \E getFails \in SUBSET (1..MaxIfaces), provFails \in BOOLEAN :
           ApplyConfigs(TheHost, getFails, provFails)
    \/ PassReturn

SpecApply == InitApply /\ [][NextApply]_vars

----------------------------------------------------------------------------
(* Properties of the drift detector, the resolver and the apply step, *)
(* checked under SpecApply                                            *)

NeedsUpdate(bmh) == switchPortConfigurationNeedsUpdate(bmh).needsUpdate

\* The declared list as the slice the snapshot is compared with: nil when
\* nothing is declared.
DeclaredSlice(bmh) ==
    IF bmh.NetworkInterfaces = <<>> THEN NilSlice ELSE SliceOf(bmh.NetworkInterfaces)

\* Deep, order-sensitive difference of the declared and the applied list.
DeclaredDiffers(bmh) == DeclaredSlice(bmh) # bmh.AppliedNetworkInterfaces

\* The apply step ran and stored a snapshot.
AppliedNow == pass.ran /\ pass.dirty /\ pass.err = <<>>

\* C13 as stated: needsUpdate is false right after a successful apply, and
\* from then on it is true iff the declared list differs from the applied
\* one.
C13_NeedsUpdateIffDiffers ==
    /\ AppliedNow => ~NeedsUpdate(hosts[pass.host])
    /\ \A h \in everApplied : NeedsUpdate(hosts[h]) <=> DeclaredDiffers(hosts[h])

\* C13 amended: from then on it is true iff the lists differ and, when
\* interfaces are declared, the NetworkInterfacesValid condition is True.
C13_NeedsUpdateIffDiffersAndValidated ==
    /\ AppliedNow => ~NeedsUpdate(hosts[pass.host])
    /\ \A h \in everApplied :
           NeedsUpdate(hosts[h]) <=>
               /\ DeclaredDiffers(hosts[h])
               /\ \/ hosts[h].NetworkInterfaces = <<>>
                  \/ HasCondition(hosts[h], "True", "AllInterfacesValid")

\* After an apply the declared list was reordered: an update is due again.
C13_Witness ==
    /\ TheHost \in everApplied
    /\ ~pass.ran
    /\ Len(hosts[TheHost].NetworkInterfaces) = 2
    /\ hosts[TheHost].AppliedNetworkInterfaces.items
           = <<hosts[TheHost].NetworkInterfaces[2], hosts[TheHost].NetworkInterfaces[1]>>
    /\ hosts[TheHost].NetworkInterfaces[1] # hosts[TheHost].NetworkInterfaces[2]
    /\ switchPortConfigurationNeedsUpdate(hosts[TheHost]).reason
           = "NetworkInterfaceSpecChanged"

\* C14: a failed apply (a Get failing other than by not-found, or the
\* provisioner rejecting the configuration) returns an error, reports not
\* dirty, yields no partial map, and leaves the host and its applied
\* snapshot as they were, so the update is still due.
C14_FailedApplyKeepsSnapshot ==
    (pass.ran /\ pass.err # <<>>) =>
        /\ ~pass.dirty
        /\ hosts[pass.host] = pass.before
        /\ NeedsUpdate(hosts[pass.host])
        /\ \A k \in 1..Len(pass.resolved) :
               pass.resolved[k].err # <<>> =>
                   pass.resolved[k].configs = <<>> /\ pass.calls = <<>>

\* The provisioner rejected a changed configuration of a host that had one
\* applied before.
C14_Witness ==
    /\ pass.ran
    /\ pass.err # <<>>
    /\ Len(pass.calls) = 1
    /\ pass.calls[1] # <<>>
    /\ ~pass.before.AppliedNetworkInterfaces.isNil

\* C15: an update due in a state outside registering, preparing, available,
\* inspecting makes no provisioner call and changes nothing, and stays due;
\* in one of these states the pass applies it unless a call fails.
C15_DeferredOutsideAllowedStates ==
    (pass.ran /\ NeedsUpdate(pass.before)) =>
        IF pass.before.State \notin {"registering", "preparing", "available", "inspecting"}
        THEN /\ pass.calls = <<>>
             /\ pass.resolved = <<>>
             /\ pass.err = <<>>
             /\ ~pass.dirty
             /\ hosts[pass.host] = pass.before
             /\ NeedsUpdate(hosts[pass.host])
        ELSE pass.err = <<>> =>
                 /\ pass.dirty
                 /\ Len(pass.calls) = 1
                 /\ hosts[pass.host].AppliedNetworkInterfaces = DeclaredSlice(pass.before)

\* A changed spec of a provisioned host waits.
C15_Witness ==
    /\ pass.ran
    /\ NeedsUpdate(pass.before)
    /\ pass.before.State = "provisioned"
    /\ pass.host \in everApplied
    /\ pass.calls = <<>>

\* The positions of the declared interfaces whose attachment is stored in
\* its resolved namespace.
FoundInterfaces(h, bmh) ==
    {i \in 1..Len(bmh.NetworkInterfaces) :
        LET ref == bmh.NetworkInterfaces[i].HostNetworkAttachment
            ns == IF ref.Namespace = "" THEN h.Namespace ELSE ref.Namespace
        IN  \E att \in AttachmentIds :
                att.Namespace = ns /\ att.Name = ref.Name /\ attachments[att] # <<>>}

InterfaceKey(netIf) == IF netIf.Name # "" THEN netIf.Name ELSE netIf.MACAddress

\* C16: a resolution without a failing Get returns no error and a map with
\* an entry for exactly the keys of the declared interfaces whose attachment
\* exists, each carrying that attachment's mode, nativeVLAN, allowedVLANs
\* and mtu; interfaces whose attachment is not found are left out.
C16_ResolvedMapIsExact ==
    \A k \in 1..Len(pass.resolved) :
        pass.resolved[k].err = <<>> =>
            LET bmh == pass.before
                h == pass.host
                m == pass.resolved[k].configs[1]
                found == FoundInterfaces(h, bmh)
            IN  /\ pass.resolved[k].configs # <<>>
                /\ DOMAIN m = {InterfaceKey(bmh.NetworkInterfaces[i]) : i \in found}
                /\ \A i \in found :
                       LET ref == bmh.NetworkInterfaces[i].HostNetworkAttachment
                           ns == IF ref.Namespace = "" THEN h.Namespace ELSE ref.Namespace
                           sp == attachments[ObjectMeta(ns, ref.Name)][1]
                       IN  (\A j \in found : j > i =>
                                InterfaceKey(bmh.NetworkInterfaces[j])
                                    # InterfaceKey(bmh.NetworkInterfaces[i]))
                           => m[InterfaceKey(bmh.NetworkInterfaces[i])]
                                  = [Mode |-> sp.Mode, NativeVLAN |-> sp.NativeVLAN,
                                     AllowedVLANs |-> sp.AllowedVLANs, MTU |-> sp.MTU]

\* Two declared interfaces; the first one's attachment does not exist and is
\* left out, the second is keyed by its MAC and resolved in another namespace.
C16_Witness ==
    /\ pass.ran
    /\ Len(pass.resolved) = 1
    /\ pass.resolved[1].err = <<>>
    /\ Len(pass.before.NetworkInterfaces) = 2
    /\ pass.before.NetworkInterfaces[1].Name = "eth0"
    /\ DOMAIN pass.resolved[1].configs[1] = {"00:11:22:33:44:66"}
    /\ pass.resolved[1].configs[1]["00:11:22:33:44:66"].MTU = <<1500>>

\* The apply step of the pass resolved attachments, or pushed the
\* configurations of declared interfaces to the provisioner.
ResolvedOrPushed ==
    /\ pass.ran
    /\ \/ pass.resolved # <<>>
       \/ pass.calls # <<>> /\ pass.before.NetworkInterfaces # <<>>

\* C29: within a pass, attachments are resolved and resolved configurations
\* are pushed only if the validator of that same pass reported not dirty and
\* the NetworkInterfacesValid condition is True, every declared interface
\* matching the discovered hardware; a pass whose validator changed the
\* condition does not reach the apply step and makes no provisioner call.
C29_ValidationGatesApply ==
    /\ ResolvedOrPushed =>
           /\ validation.ran
           /\ validation.host = pass.host
           /\ ~validation.dirty
           /\ hosts[validation.host] = validation.before \/ pass.dirty
           /\ HasCondition(pass.before, "True", "AllInterfacesValid")
           /\ pass.before.HardwareDetails # <<>>
           /\ EveryKeyDiscovered(pass.before)
    /\ (validation.ran /\ validation.dirty) =>
           /\ ~pass.ran
           /\ pass.calls = <<>>
           /\ pass.resolved = <<>>

\* A pass whose validator left the True condition untouched resolved two
\* declared interfaces and pushed them.
C29_Witness ==
    /\ pass.ran
    /\ ~validation.dirty
    /\ Len(pass.before.NetworkInterfaces) = 2
    /\ Len(pass.resolved) = 1
    /\ Len(pass.calls) = 1
    /\ pass.calls[1] # <<>>
    /\ pass.dirty

\* A pass whose validator changed the condition is waiting to return, the
\* host declaring an interface whose configuration was never applied.
C29_WitnessDirty ==
    /\ validation.ran
    /\ validation.dirty
    /\ ~pass.ran
    /\ Len(hosts[validation.host].NetworkInterfaces) > 0
    /\ hosts[validation.host].AppliedNetworkInterfaces.isNil
    /\ HasCondition(hosts[validation.host], "True", "AllInterfacesValid")

\* The keys of the interfaces in the host's applied snapshot.
AppliedKeys(h) ==
    {GetKey(hosts[h].AppliedNetworkInterfaces.items[i]) :
        i \in 1..Len(hosts[h].AppliedNetworkInterfaces.items)}

\* The attachment an interface of host h refers to exists.
AttachmentStored(h, netIf) ==
    LET ref == netIf.HostNetworkAttachment
        id == ObjectMeta(IF ref.Namespace = "" THEN h.Namespace ELSE ref.Namespace,
                         ref.Name)
    IN  id \in DOMAIN attachments /\ attachments[id] # <<>>

\* C36: whenever the host's applied-interfaces list contains an interface,
\* the configuration map most recently accepted by the provisioner's
\* SetSwitchPortConfigs has an entry for that interface's key.
C36_AppliedInterfacesWerePushed ==
    AppliedKeys(TheHost) \subseteq DOMAIN prov.switchPortConfigs

\* What holds of the code: the applied interfaces whose attachment exists
\* have their entry in the map the provisioner accepted last.
AppliedWithAttachmentWerePushed ==
    \A i \in 1..Len(hosts[TheHost].AppliedNetworkInterfaces.items) :
        AttachmentStored(TheHost, hosts[TheHost].AppliedNetworkInterfaces.items[i])
        => GetKey(hosts[TheHost].AppliedNetworkInterfaces.items[i])
               \in DOMAIN prov.switchPortConfigs

\* An apply pushed the configuration of one interface, skipped another whose
\* attachment does not exist, and stored both in the applied snapshot.
SkippedInterfaceAppliedSeen ==
    /\ pass.ran
    /\ pass.dirty
    /\ pass.err = <<>>
    /\ Len(pass.calls) = 1
    /\ pass.calls[1] = prov.switchPortConfigs
    /\ Cardinality(DOMAIN prov.switchPortConfigs) = 1
    /\ Cardinality(AppliedKeys(pass.host)) = 2
    /\ DOMAIN prov.switchPortConfigs \subseteq AppliedKeys(pass.host)

----------------------------------------------------------------------------
(* Repeated passes of manageSwitchPortConfigs over one host, the status *)
(* kept from one pass to the next                                       *)

\* manageSwitchPortConfigs losing the applied snapshot the apply step
\* stored (fault injection).
manageSwitchPortConfigs_snapshotLost(hostMeta, bmh, atts, p, getFails, provFails) ==
    LET validated == validateNetworkInterfaces(bmh)
        applied == applySwitchPortConfigs(hostMeta, validated.host, atts, p,
                                          getFails, provFails)
    IN  IF validated.dirty
        THEN [result |-> "actionUpdate", host |-> validated.host, prov |-> p,
              err |-> <<>>, calls |-> <<>>]
        ELSE IF applied.err # <<>>
        THEN [result |-> "actionError", host |-> applied.host, prov |-> applied.prov,
              err |-> applied.err, calls |-> applied.calls]
        ELSE IF applied.dirty
        THEN [result |-> "actionUpdate", host |-> validated.host, prov |-> applied.prov,
              err |-> <<>>, calls |-> applied.calls]
        ELSE [result |-> "actionContinue", host |-> applied.host, prov |-> applied.prov,
              err |-> <<>>, calls |-> <<>>]

\* manageSwitchPortConfigs: validate; when that changed the status, ask for
\* an update; otherwise apply, and ask for an update when that changed the
\* status; an error of the apply step is returned; else continue.
manageSwitchPortConfigs(hostMeta, bmh, atts, p, getFails, provFails) ==
    LET validated == validateNetworkInterfaces(bmh)
        applied == applySwitchPortConfigs(hostMeta, validated.host, atts, p,
                                          getFails, provFails)
    IN  IF validated.dirty
        THEN [result |-> "actionUpdate", host |-> validated.host, prov |-> p,
              err |-> <<>>, calls |-> <<>>]
        ELSE IF applied.err # <<>>
        THEN [result |-> "actionError", host |-> applied.host, prov |-> applied.prov,
              err |-> applied.err, calls |-> applied.calls]
        ELSE IF applied.dirty
        THEN [result |-> "actionUpdate", host |-> applied.host, prov |-> applied.prov,
              err |-> <<>>, calls |-> applied.calls]
        ELSE [result |-> "actionContinue", host |-> applied.host, prov |-> applied.prov,
              err |-> <<>>, calls |-> <<>>]

\* Passes recorded in one behaviour.
MaxPasses == 4

\* What a pass reads apart from the status: the declared interfaces, the
\* hardware details and the provisioning state (the attachments never
\* change under SpecFixpoint).
PassInput(bmh) ==
    [NetworkInterfaces |-> bmh.NetworkInterfaces,
     HardwareDetails |-> bmh.HardwareDetails,
     State |-> bmh.State]

\* The provisioning states the host is in between the passes: two in which
\* port updates are allowed, one in which they are not.
PassStates == {StateRegistering, StateAvailable, StateProvisioning}

\* No pass has run.
NoRuns == <<>>

InitFixpoint ==
    /\ hosts = [h \in HostIds |-> NewHost]
    /\ attachments \in {f \in [AttachmentIds -> {<<>>, <<AccessSpec>>, <<HybridSpec>>}] :
                           f[AttachmentOrder[1]] # <<HybridSpec>>
                           /\ f[AttachmentOrder[2]] # <<AccessSpec>>}
    /\ admission = NoAdmission
    /\ everRejected = {}
    /\ informer = NoInformer
    /\ validation = NoValidation
    /\ probe = NoRuns
    /\ pass = NoPass
    /\ everApplied = {}
    /\ prov = NoProv
    /\ ironic = NoIronic
    /\ call = NoCall
    /\ cluster = NoCluster
    /\ publish = NoPublish
    /\ units = NoUnits

\* One pass of manageSwitchPortConfigs; the status it leaves is the one the
\* next pass starts from. probe lists the passes run since the inputs
\* changed last. failed tells which call failed in the pass: a
\* read of an attachment, a call of the provisioner, or none.
ManagePass(h, getFails, provFails) ==
    LET res == manageSwitchPortConfigs(h, hosts[h], attachments, prov, getFails, provFails)
    IN  /\ Len(probe) < MaxPasses
        /\ hosts' = [hosts EXCEPT ![h] = res.host]
        /\ prov' = res.prov
        /\ probe' = Append(probe,
                           [result |-> res.result,
                            changed |-> res.host # hosts[h],
                            called |-> res.calls # <<>>,
                            failed |-> IF res.err = <<>> THEN "none"
                                       ELSE IF res.calls = <<>> THEN "read"
                                       ELSE "provisioner"])
        /\ UNCHANGED <<switchVars, attachments, admission, everRejected, informer, validation,
                       pass, everApplied, ironic, call>>

\* Between two passes the spec is edited, the hardware is inspected or the
\* provisioning state moves on (an interface added or removed, hardware
\* details replaced, another state): the passes that follow run on other
\* inputs.
ChangeInput(h, input) ==
    /\ PassInput(hosts[h]) # input
    /\ hosts' = [hosts EXCEPT ![h].NetworkInterfaces = input.NetworkInterfaces,
                              ![h].HardwareDetails = input.HardwareDetails,
                              ![h].State = input.State]
    /\ probe' = NoRuns
    /\ UNCHANGED <<switchVars, attachments, admission, everRejected, informer, validation,
                   pass, everApplied, provVars>>

NextFixpoint ==
    \/ \E netIf \in ApplyInterfaces :
           /\ Len(hosts[TheHost].NetworkInterfaces) < MaxIfaces
           /\ ChangeInput(TheHost, [PassInput(hosts[TheHost]) EXCEPT
                                       !.NetworkInterfaces = Append(@, netIf)])
    \/ \E i \in 1..MaxIfaces :
           /\ i <= Len(hosts[TheHost].NetworkInterfaces)
           /\ ChangeInput(TheHost, [PassInput(hosts[TheHost]) EXCEPT
                                       !.NetworkInterfaces =
                                           SubSeq(@, 1, i - 1) \o SubSeq(@, i + 1, Len(@))])
    \/ \E hw \in ApplyHardware :
           ChangeInput(TheHost, [PassInput(hosts[TheHost]) EXCEPT !.HardwareDetails = hw])
    \/ \E state \in PassStates :
           ChangeInput(TheHost, [PassInput(hosts[TheHost]) EXCEPT !.State = state])
    \/ \E getFails \in {{}, 1..MaxIfaces}, provFails \in BOOLEAN :
           ManagePass(TheHost, getFails, provFails)

SpecFixpoint == InitFixpoint /\ [][NextFixpoint]_vars

----------------------------------------------------------------------------
(* Fixpoint of the passes, checked under SpecFixpoint *)

\* No call of the provisioner failed in the passes k..l.
ProvisionerSucceeded(k, l) == \A j \in k..l : probe[j].failed # "provisioner"

\* No call at all failed in the passes k..l.
CallsSucceeded(k, l) == \A j \in k..l : probe[j].failed = "none"

\* Three passes in a row hold one that returned actionContinue, and a pass
\* after one that returned actionContinue returns actionContinue, changes
\* no status and calls no provisioner.
FixpointIn(k, l) ==
    /\ l = k + 2 => \E j \in k..l : probe[j].result = "actionContinue"
    /\ (l = k + 1 /\ probe[k].result = "actionContinue") =>
           /\ probe[l].result = "actionContinue"
           /\ ~probe[l].changed
           /\ ~probe[l].called

\* C38 as stated: with spec, hardware details, provisioning state and
\* attachments fixed and every provisioner call succeeding, actionContinue
\* is returned within three passes, and every pass after it returns
\* actionContinue, changes no status and makes no provisioner call.
C38_FixpointWithinThreePasses ==
    \A k \in 1..Len(probe) : \A l \in k..Len(probe) :
        ProvisionerSucceeded(k, l) => FixpointIn(k, l)

\* C38: with spec, hardware details, provisioning state and attachments
\* fixed and every attachment read and provisioner call succeeding,
\* actionContinue is returned within three passes, and every pass after it
\* returns actionContinue, changes no status and makes no provisioner call.
C38_FixpointWhenCallsSucceed ==
    \A k \in 1..Len(probe) : \A l \in k..Len(probe) :
        CallsSucceeded(k, l) => FixpointIn(k, l)

\* Validation changed the status in the first pass, the apply step in the
\* second, the third returned actionContinue and so did the fourth.
C38_Witness ==
    /\ Len(probe) = 4
    /\ CallsSucceeded(1, 4)
    /\ probe[1].result = "actionUpdate" /\ ~probe[1].called
    /\ probe[2].result = "actionUpdate" /\ probe[2].called
    /\ probe[3].result = "actionContinue"
    /\ probe[4].result = "actionContinue"

\* Three passes on fixed inputs that each failed to read an attachment.
ReadKeepsFailingSeen ==
    /\ Len(probe) >= 3
    /\ \A j \in 1..3 : probe[j].failed = "read" /\ probe[j].result = "actionError"

----------------------------------------------------------------------------
(* Port reconciler (provisioner): NICs, remote ports and the per-NIC step *)

UpperChars == "ABCDEFGHIJKLMNOPQRSTUVWXYZ"
LowerChars == "abcdefghijklmnopqrstuvwxyz"

\* The lower-case form of a one-character string
LowerChar(c) ==
    IF \E i \in 1..Len(UpperChars) : SubSeq(UpperChars, i, i) = c
    THEN LET i == CHOOSE i \in 1..Len(UpperChars) : SubSeq(UpperChars, i, i) = c
         IN  SubSeq(LowerChars, i, i)
    ELSE c

RECURSIVE LowerFrom(_)
\* strings.ToLower, character by character
LowerFrom(s) ==
    IF s = "" THEN ""
    ELSE LowerChar(SubSeq(s, 1, 1)) \o LowerFrom(SubSeq(s, 2, Len(s)))

\* The lower-case forms of the names and addresses the model uses, computed
\* once.
LowerTable ==
    [s \in {"", "eth0", "eth1", "eth2", "eth3", "eth4",
            "11:22:33:44:55:66", "aa:bb:cc:dd:ee:01", "AA:BB:CC:DD:EE:01",
            "Aa:Bb:Cc:Dd:Ee:01", "aa:bb:cc:dd:ee:02", "aa:bb:cc:dd:ee:03",
            "AA:BB:CC:DD:EE:03",
            "aa:bb:cc:dd:ee:99"} |-> LowerFrom(s)]

\* strings.ToLower
ToLower(s) == IF s \in DOMAIN LowerTable THEN LowerTable[s] ELSE LowerFrom(s)

\* strings.EqualFold
EqualFold(s, t) == ToLower(s) = ToLower(t)

\* metal3api.LLDP: the link-layer neighbour a NIC reports
LLDP(switchID, portID, switchSystemName) ==
    [SwitchID |-> switchID, PortID |-> portID, SwitchSystemName |-> switchSystemName]

\* metal3api.NIC with the fields the port reconciler reads; LLDP is <<>> for
\* nil, else <<lldp>>
HardwareNIC(name, mac, pxe, lldp) ==
    [Name |-> name, MAC |-> mac, PXE |-> pxe, LLDP |-> lldp]

RECURSIVE DedupFrom(_, _, _)
\* deduplicateNICsByMAC from position i on, seen holding the lower-cased
\* MACs kept so far
DedupFrom(nics, i, seen) ==
    IF i > Len(nics) THEN <<>>
    ELSE IF nics[i].MAC = "" \/ ToLower(nics[i].MAC) \in seen
    THEN DedupFrom(nics, i + 1, seen)
    ELSE <<nics[i]>> \o DedupFrom(nics, i + 1, seen \cup {ToLower(nics[i].MAC)})

\* deduplicateNICsByMAC: one record per case-insensitive MAC, the first seen,
\* in input order; records with an empty MAC are dropped
deduplicateNICsByMAC(nics) == DedupFrom(nics, 1, {})

\* buildLocalLinkConnection: the non-empty LLDP fields, nil (<<>>) when the
\* NIC has no LLDP data or every field is empty
buildLocalLinkConnection(nic) ==
    IF nic.LLDP = <<>> THEN <<>>
    ELSE LET l == nic.LLDP[1]
             keys == {k \in {"switch_id", "port_id", "switch_info"} :
                         CASE k = "switch_id" -> l.SwitchID # ""
                           [] k = "port_id" -> l.PortID # ""
                           [] OTHER -> l.SwitchSystemName # ""}
         IN  IF keys = {} THEN <<>>
             ELSE <<[k \in keys |->
                       CASE k = "switch_id" -> l.SwitchID
                         [] k = "port_id" -> l.PortID
                         [] OTHER -> l.SwitchSystemName]>>

\* ports.Port: a port record of the service; LocalLinkConnection and
\* SwitchConfig are <<>> when unset
Port(nodeUUID, address, pxeEnabled, llc, switchConfig) ==
    [NodeUUID |-> nodeUUID, Address |-> address, PXEEnabled |-> pxeEnabled,
     LocalLinkConnection |-> llc, SwitchConfig |-> switchConfig]

\* The error of a call the service refuses or that does not get through.
CallError(what) == NewError(what \o ": service unavailable")

\* listNodePorts: the ports of the node, in the service's order
listNodePorts(svc, nodeUUID) ==
    SelectSeq(svc.ports, LAMBDA port : port.NodeUUID = nodeUUID)

\* nodeHasAssignedPort: the node has at least one port
nodeHasAssignedPort(svc, nodeUUID) == listNodePorts(svc, nodeUUID) # <<>>

\* isAddressAllocatedToPort: some port of the service has this address
isAddressAllocatedToPort(svc, address) ==
    \E i \in 1..Len(svc.ports) : ToLower(svc.ports[i].Address) = ToLower(address)

\* p.switchPortConfigs[key]: <<>> for a missing entry
ConfigAt(configs, key) ==
    IF key \in DOMAIN configs THEN <<configs[key]>> ELSE <<>>

\* createPXEEnabledNodePort: one create call for a PXE-enabled port
createPXEEnabledNodePort(svc, nodeUUID, mac, switchConfig, fails) ==
    LET port == Port(nodeUUID, mac, TRUE, <<>>, switchConfig)
        request == [op |-> "create-port", port |-> port]
    IN  IF fails
        THEN [svc |-> svc, err |-> <<CallError("failed to create port")>>,
              requests |-> <<request>>]
        ELSE [svc |-> [svc EXCEPT !.ports = Append(@, port)], err |-> <<>>,
              requests |-> <<request>>]

\* ensurePort, the per-NIC step: create the port if none exists for the MAC;
\* leave an existing port that carries link-layer data untouched; update an
\* existing port only where it diverges.
ensurePort(svc, nodeUUID, nic, isPXEPort, switchConfig, existingPort, fails) ==
    LET created == Port(nodeUUID, nic.MAC, isPXEPort, buildLocalLinkConnection(nic),
                        switchConfig)
        desired == [existingPort[1] EXCEPT
                      !.PXEEnabled = isPXEPort,
                      !.LocalLinkConnection = buildLocalLinkConnection(nic),
                      !.SwitchConfig = switchConfig]
        at == CHOOSE i \in 1..Len(svc.ports) :
                  /\ svc.ports[i] = existingPort[1]
                  /\ \A j \in 1..(i - 1) : svc.ports[j] # existingPort[1]
        untouched == [svc |-> svc, err |-> <<>>, requests |-> <<>>]
    IN  IF existingPort = <<>>
        THEN IF fails
             THEN [svc |-> svc, err |-> <<CallError("failed to create port")>>,
                   requests |-> <<[op |-> "create-port", port |-> created]>>]
             ELSE [svc |-> [svc EXCEPT !.ports = Append(@, created)],
                   err |-> <<>>,
                   requests |-> <<[op |-> "create-port", port |-> created]>>]
        ELSE IF existingPort[1].LocalLinkConnection # <<>> THEN untouched
        ELSE IF desired = existingPort[1] THEN untouched
        ELSE IF fails
        THEN [svc |-> svc, err |-> <<CallError("failed to update port")>>,
              requests |-> <<[op |-> "update-port", port |-> desired]>>]
        ELSE [svc |-> [svc EXCEPT !.ports[at] = desired], err |-> <<>>,
              requests |-> <<[op |-> "update-port", port |-> desired]>>]

\* ensurePxePort failing at one of its calls: "" for none, else the call.
PxeFaults == {"", "nodeHasAssignedPort", "isAddressAllocatedToPort", "create"}

\* ensurePxePort: nothing if the node has a port or the boot MAC is
\* allocated to a port; otherwise create the PXE-enabled boot port.
ensurePxePort(svc, p, nodeUUID, failAt) ==
    LET hasPort == [op |-> "list-ports", node |-> nodeUUID]
        byAddress == [op |-> "list-ports-by-address", address |-> p.bootMACAddress]
        created == createPXEEnabledNodePort(svc, nodeUUID, p.bootMACAddress,
                       ConfigAt(p.switchPortConfigs, p.bootMACAddress),
                       failAt = "create")
    IN  IF failAt = "nodeHasAssignedPort"
        THEN [svc |-> svc, err |-> <<CallError("failed to list ports")>>,
              requests |-> <<hasPort>>]
        ELSE IF nodeHasAssignedPort(svc, nodeUUID)
        THEN [svc |-> svc, err |-> <<>>, requests |-> <<hasPort>>]
        ELSE IF failAt = "isAddressAllocatedToPort"
        THEN [svc |-> svc, err |-> <<CallError("failed to list ports")>>,
              requests |-> <<hasPort, byAddress>>]
        ELSE IF isAddressAllocatedToPort(svc, p.bootMACAddress)
        THEN [svc |-> svc, err |-> <<>>, requests |-> <<hasPort, byAddress>>]
        ELSE [svc |-> created.svc, err |-> created.err,
              requests |-> <<hasPort, byAddress>> \o created.requests]

\* portsByMAC indexed by the address as listed, without lower-casing
\* (fault injection).
PortByMAC_caseSensitive(existingPorts, mac) ==
    LET hits == {i \in 1..Len(existingPorts) : existingPorts[i].Address = mac}
    IN  IF hits = {} THEN <<>>
        ELSE <<existingPorts[CHOOSE i \in hits : \A j \in hits : j <= i]>>

\* portsByMAC[strings.ToLower(mac)]: the last listed port with that
\* lower-cased address, <<>> if none
PortByMAC(existingPorts, mac) ==
    LET hits == {i \in 1..Len(existingPorts) :
                    ToLower(existingPorts[i].Address) = ToLower(mac)}
    IN  IF hits = {} THEN <<>>
        ELSE <<existingPorts[CHOOSE i \in hits : \A j \in hits : j <= i]>>

\* The switch-port configuration of a NIC: the entry under its lower-cased
\* name, else the entry under its lower-cased MAC, else none
SwitchConfigFor(p, nic) ==
    LET byName == IF nic.Name # "" THEN ConfigAt(p.switchPortConfigs, ToLower(nic.Name))
                  ELSE <<>>
    IN  IF byName = <<>> /\ nic.MAC # ""
        THEN ConfigAt(p.switchPortConfigs, ToLower(nic.MAC))
        ELSE byName

\* Every failure named in the aggregate error (fault injection).
ReportedFailures_all(failures) == failures

\* The failures named in the aggregate error: the first three
ReportedFailures(failures) ==
    IF Len(failures) > 3 THEN SubSeq(failures, 1, 3) ELSE failures

RECURSIVE EnsureFrom_lastFirst(_, _, _, _, _, _, _)
\* The loop of ensurePorts taking the NICs from the last to the first
\* (fault injection).
EnsureFrom_lastFirst(p, nodeUUID, uniqueNICs, existingPorts, failing, i, acc) ==
    IF i > Len(uniqueNICs) THEN acc
    ELSE LET nic == uniqueNICs[Len(uniqueNICs) - i + 1]
             isPXEPort == nic.PXE \/ EqualFold(nic.MAC, p.bootMACAddress)
             step == ensurePort(acc.svc, nodeUUID, nic, isPXEPort,
                                SwitchConfigFor(p, nic),
                                PortByMAC(existingPorts, nic.MAC), i \in failing)
             attempt == [nic |-> nic, isPXEPort |-> isPXEPort,
                         switchConfig |-> SwitchConfigFor(p, nic),
                         existingPort |-> PortByMAC(existingPorts, nic.MAC),
                         failed |-> step.err # <<>>]
         IN  IF nic.MAC = ""
             THEN EnsureFrom_lastFirst(p, nodeUUID, uniqueNICs, existingPorts, failing,
                                       i + 1, acc)
             ELSE EnsureFrom_lastFirst(p, nodeUUID, uniqueNICs, existingPorts, failing,
                      i + 1,
                      [svc |-> step.svc,
                       failures |-> IF step.err # <<>>
                                    THEN Append(acc.failures,
                                                nic.Name \o "(" \o nic.MAC \o "): "
                                                \o step.err[1].msg)
                                    ELSE acc.failures,
                       requests |-> acc.requests \o step.requests,
                       attempts |-> Append(acc.attempts, attempt)])

RECURSIVE EnsureFrom(_, _, _, _, _, _, _)
\* The loop of ensurePorts from NIC i on. failing holds the positions whose
\* create or update call fails; acc carries the service, the failures, the
\* requests sent and the attempts made so far.
EnsureFrom(p, nodeUUID, uniqueNICs, existingPorts, failing, i, acc) ==
    IF i > Len(uniqueNICs) THEN acc
    ELSE LET nic == uniqueNICs[i]
             isPXEPort == nic.PXE \/ EqualFold(nic.MAC, p.bootMACAddress)
             step == ensurePort(acc.svc, nodeUUID, nic, isPXEPort,
                                SwitchConfigFor(p, nic),
                                PortByMAC(existingPorts, nic.MAC), i \in failing)
             attempt == [nic |-> nic, isPXEPort |-> isPXEPort,
                         switchConfig |-> SwitchConfigFor(p, nic),
                         existingPort |-> PortByMAC(existingPorts, nic.MAC),
                         failed |-> step.err # <<>>]
         IN  IF nic.MAC = ""
             THEN EnsureFrom(p, nodeUUID, uniqueNICs, existingPorts, failing, i + 1, acc)
             ELSE EnsureFrom(p, nodeUUID, uniqueNICs, existingPorts, failing, i + 1,
                      [svc |-> step.svc,
                       failures |-> IF step.err # <<>>
                                    THEN Append(acc.failures,
                                                nic.Name \o "(" \o nic.MAC \o "): "
                                                \o step.err[1].msg)
                                    ELSE acc.failures,
                       requests |-> acc.requests \o step.requests,
                       attempts |-> Append(acc.attempts, attempt)])

\* What may go wrong during one ensurePorts pass of provisioner p: before
\* inspection a call of ensurePxePort; afterwards the listing, or the create
\* or update call of no NIC, of the first NIC, or of every NIC.
PortFaults(p) ==
    IF p.storedHardwareDetails = <<>>
    THEN [list : {FALSE}, ensure : {{}}, pxe : PxeFaults]
    ELSE LET n == Len(deduplicateNICsByMAC(p.storedHardwareDetails[1].NIC))
         IN  {[list |-> TRUE, ensure |-> {}, pxe |-> ""]}
             \cup [list : {FALSE},
                   ensure : {{}, {1}, 1..n},
                   pxe : {""}]

\* ensurePorts also removing the node's ports that correspond to no NIC of
\* the hardware details (fault injection).
ensurePorts_removingStale(svc, p, nodeUUID, faults) ==
    LET uniqueNICs == deduplicateNICsByMAC(p.storedHardwareDetails[1].NIC)
        listing == [op |-> "list-ports", node |-> nodeUUID]
        done == EnsureFrom(p, nodeUUID, uniqueNICs, listNodePorts(svc, nodeUUID),
                           faults.ensure, 1,
                           [svc |-> svc, failures |-> <<>>,
                            requests |-> <<listing>>, attempts |-> <<>>])
        pxe == ensurePxePort(svc, p, nodeUUID, faults.pxe)
        current(port) ==
            \/ port.NodeUUID # nodeUUID
            \/ \E i \in 1..Len(uniqueNICs) :
                   ToLower(uniqueNICs[i].MAC) = ToLower(port.Address)
    IN  IF p.storedHardwareDetails = <<>>
        THEN IF p.bootMACAddress # ""
             THEN [svc |-> pxe.svc, err |-> pxe.err, requests |-> pxe.requests,
                   attempts |-> <<>>]
             ELSE [svc |-> svc, err |-> <<>>, requests |-> <<>>, attempts |-> <<>>]
        ELSE IF faults.list
        THEN [svc |-> svc,
              err |-> <<Wrap("failed to list existing ports: ",
                             CallError("failed to list ports"))>>,
              requests |-> <<listing>>, attempts |-> <<>>]
        ELSE [svc |-> [done.svc EXCEPT !.ports = SelectSeq(@, current)],
              err |-> IF Len(done.failures) > 0
                      THEN <<NewError("failed to ensure " \o FormatInt(Len(done.failures))
                                      \o "/" \o FormatInt(Len(uniqueNICs)) \o " ports: "
                                      \o Join(ReportedFailures(done.failures), "; "))>>
                      ELSE <<>>,
              requests |-> done.requests, attempts |-> done.attempts]

\* ensurePorts: before inspection the boot MAC's port only; with stored
\* hardware details one pass over the deduplicated NICs, the failures
\* collected into one error.
ensurePorts(svc, p, nodeUUID, faults) ==
    LET uniqueNICs == deduplicateNICsByMAC(p.storedHardwareDetails[1].NIC)
        listing == [op |-> "list-ports", node |-> nodeUUID]
        done == EnsureFrom(p, nodeUUID, uniqueNICs, listNodePorts(svc, nodeUUID),
                           faults.ensure, 1,
                           [svc |-> svc, failures |-> <<>>,
                            requests |-> <<listing>>, attempts |-> <<>>])
        pxe == ensurePxePort(svc, p, nodeUUID, faults.pxe)
    IN  IF p.storedHardwareDetails = <<>>
        THEN IF p.bootMACAddress # ""
             THEN [svc |-> pxe.svc, err |-> pxe.err, requests |-> pxe.requests,
                   attempts |-> <<>>]
             ELSE [svc |-> svc, err |-> <<>>, requests |-> <<>>, attempts |-> <<>>]
        ELSE IF faults.list
        THEN [svc |-> svc,
              err |-> <<Wrap("failed to list existing ports: ",
                             CallError("failed to list ports"))>>,
              requests |-> <<listing>>, attempts |-> <<>>]
        ELSE [svc |-> done.svc,
              err |-> IF Len(done.failures) > 0
                      THEN <<NewError("failed to ensure " \o FormatInt(Len(done.failures))
                                      \o "/" \o FormatInt(Len(uniqueNICs)) \o " ports: "
                                      \o Join(ReportedFailures(done.failures), "; "))>>
                      ELSE <<>>,
              requests |-> done.requests, attempts |-> done.attempts]

----------------------------------------------------------------------------
(* Registration of the host with the service *)

\* The UUID the service gives the host's node.
NodeUUID == "node-1"

\* What nodes.Create may answer.
CreateOutcomes == {"ok", "conflict", "error"}

\* enrollNode reporting a conflict like any other creation failure
\* (fault injection).
enrollNode_conflictIsError(svc, p, createOutcome, portFails) ==
    LET ironicNode == [UUID |-> NodeUUID, ProvisionState |-> "enroll",
                       TargetProvisionState |-> "", LastError |-> ""]
        creation == [op |-> "create-node", node |-> NodeUUID]
        enrolled == [svc EXCEPT !.node = <<ironicNode>>]
        port == createPXEEnabledNodePort(enrolled, NodeUUID, p.bootMACAddress,
                    ConfigAt(p.switchPortConfigs, p.bootMACAddress), portFails)
    IN  IF createOutcome = "conflict"
        THEN [svc |-> svc, node |-> <<>>, retry |-> TRUE,
              err |-> <<Wrap("failed to register host in ironic: ",
                             CallError("conflict"))>>,
              requests |-> <<creation>>]
        ELSE IF createOutcome # "ok"
        THEN [svc |-> svc, node |-> <<>>, retry |-> TRUE,
              err |-> <<Wrap("failed to register host in ironic: ",
                             CallError("failed to create node"))>>,
              requests |-> <<creation>>]
        ELSE IF p.bootMACAddress # ""
        THEN IF port.err # <<>>
             THEN [svc |-> port.svc, node |-> <<>>, retry |-> TRUE, err |-> port.err,
                   requests |-> <<creation>> \o port.requests]
             ELSE [svc |-> port.svc, node |-> <<ironicNode>>, retry |-> FALSE,
                   err |-> <<>>, requests |-> <<creation>> \o port.requests]
        ELSE [svc |-> enrolled, node |-> <<ironicNode>>, retry |-> FALSE,
              err |-> <<>>, requests |-> <<creation>>]

\* enrollNode leaving the boot port to the pass that follows inspection: no
\* port is created while the provisioner holds no hardware details
\* (fault injection).
enrollNode_portAfterInspection(svc, p, createOutcome, portFails) ==
    LET ironicNode == [UUID |-> NodeUUID, ProvisionState |-> "enroll",
                       TargetProvisionState |-> "", LastError |-> ""]
        creation == [op |-> "create-node", node |-> NodeUUID]
        enrolled == [svc EXCEPT !.node = <<ironicNode>>]
        port == createPXEEnabledNodePort(enrolled, NodeUUID, p.bootMACAddress,
                    ConfigAt(p.switchPortConfigs, p.bootMACAddress), portFails)
    IN  IF createOutcome = "conflict"
        THEN [svc |-> svc, node |-> <<>>, retry |-> TRUE, err |-> <<>>,
              requests |-> <<creation>>]
        ELSE IF createOutcome # "ok"
        THEN [svc |-> svc, node |-> <<>>, retry |-> TRUE,
              err |-> <<Wrap("failed to register host in ironic: ",
                             CallError("failed to create node"))>>,
              requests |-> <<creation>>]
        ELSE IF p.bootMACAddress # "" /\ p.storedHardwareDetails # <<>>
        THEN IF port.err # <<>>
             THEN [svc |-> port.svc, node |-> <<>>, retry |-> TRUE, err |-> port.err,
                   requests |-> <<creation>> \o port.requests]
             ELSE [svc |-> port.svc, node |-> <<ironicNode>>, retry |-> FALSE,
                   err |-> <<>>, requests |-> <<creation>> \o port.requests]
        ELSE [svc |-> enrolled, node |-> <<ironicNode>>, retry |-> FALSE,
              err |-> <<>>, requests |-> <<creation>>]

\* enrollNode: create the node; a conflict (HTTP 409) asks for a retry
\* without an error, any other failure is an error; with a boot MAC known,
\* create its PXE-enabled port.
enrollNode(svc, p, createOutcome, portFails) ==
    LET ironicNode == [UUID |-> NodeUUID, ProvisionState |-> "enroll",
                       TargetProvisionState |-> "", LastError |-> ""]
        creation == [op |-> "create-node", node |-> NodeUUID]
        enrolled == [svc EXCEPT !.node = <<ironicNode>>]
        port == createPXEEnabledNodePort(enrolled, NodeUUID, p.bootMACAddress,
                    ConfigAt(p.switchPortConfigs, p.bootMACAddress), portFails)
    IN  IF createOutcome = "conflict"
        THEN [svc |-> svc, node |-> <<>>, retry |-> TRUE, err |-> <<>>,
              requests |-> <<creation>>]
        ELSE IF createOutcome # "ok"
        THEN [svc |-> svc, node |-> <<>>, retry |-> TRUE,
              err |-> <<Wrap("failed to register host in ironic: ",
                             CallError("failed to create node"))>>,
              requests |-> <<creation>>]
        ELSE IF p.bootMACAddress # ""
        THEN IF port.err # <<>>
             THEN [svc |-> port.svc, node |-> <<>>, retry |-> TRUE, err |-> port.err,
                   requests |-> <<creation>> \o port.requests]
             ELSE [svc |-> port.svc, node |-> <<ironicNode>>, retry |-> FALSE,
                   err |-> <<>>, requests |-> <<creation>> \o port.requests]
        ELSE [svc |-> enrolled, node |-> <<ironicNode>>, retry |-> FALSE,
              err |-> <<>>, requests |-> <<creation>>]

\* findExistingHost: the node the service holds for this host, <<>> if none
findExistingHost(svc, p) == svc.node

\* What Register meets besides the port audit: how the checks before the
\* node lookup end, whether a node update is due and whether it gets
\* through, and whether an error reported by the node is to be retried
\* (credentialsChanged or restartOnFailure). networkData tells how the
\* host's preprovisioning network data reads with no image builder enabled:
\* "ok" when it is empty or parses as YAML, "invalid" when it does not parse.
TailInputs ==
    [update : {"none", "ok", "error"}, retryOnError : BOOLEAN,
     networkData : {"ok", "invalid"}]

NoTail == [update |-> "none", retryOnError |-> FALSE, networkData |-> "ok"]

NoFaults == [list |-> FALSE, ensure |-> {}, pxe |-> ""]

\* A node update is due and gets through.
UpdateDue == [update |-> "ok", retryOnError |-> FALSE, networkData |-> "ok"]

\* The last part of Register: give up with a transient error when the
\* preprovisioning network data does not parse, else send the node update
\* if one is due, then act on the node's provision state.
RegisterTail(svc, ironicNode, provID, tail) ==
    LET updating == IF tail.update = "none" THEN <<>>
                    ELSE <<[op |-> "update-node", node |-> ironicNode.UUID]>>
        manage == [op |-> "set-provision-state", node |-> ironicNode.UUID,
                   target |-> "manage"]
        out(result, requests, after) ==
            [svc |-> after, result |-> result, provID |-> provID, err |-> <<>>,
             requests |-> updating \o requests]
    IN  IF tail.networkData = "invalid"
        THEN [svc |-> svc, result |-> "transientError", provID |-> provID,
              err |-> <<NewError("invalid preprovisioningNetworkData: yaml: unmarshal errors")>>,
              requests |-> <<>>]
        ELSE IF tail.update = "error"
        THEN [svc |-> svc, result |-> "transientError", provID |-> provID,
              err |-> <<CallError("failed to update node")>>, requests |-> updating]
        ELSE CASE ironicNode.ProvisionState = "enroll" ->
                    IF ironicNode.LastError # "" /\ ~tail.retryOnError
                    THEN out("operationFailed", <<>>, svc)
                    ELSE IF ironicNode.TargetProvisionState = "manage"
                    THEN out("operationContinuing", <<>>, svc)
                    ELSE out("operationContinuing", <<manage>>,
                             [svc EXCEPT !.node[1].TargetProvisionState = "manage"])
               [] ironicNode.ProvisionState = "verifying" ->
                    out("operationContinuing", <<>>, svc)
               [] ironicNode.ProvisionState \in
                      {"clean wait", "cleaning", "wait call-back", "deploying", "inspecting"} ->
                    out("operationComplete", <<>>, svc)
               [] OTHER ->
                    out("operationComplete",
                        <<[op |-> "configure-node", node |-> ironicNode.UUID]>>, svc)

\* The result of Register once the node update and the provision-state
\* switch ended as res, after the given requests and attempts.
RegisterResult(requests, attempts, res) ==
    [svc |-> res.svc, result |-> res.result, provID |-> res.provID, err |-> res.err,
     requests |-> requests \o res.requests, attempts |-> attempts]

\* Register after enrollNode returned enrolled: a transient error, a retry
\* after a delay, or on with the new node.
RegisterEnrolled(enrolled, tail) ==
    IF enrolled.err # <<>>
    THEN [svc |-> enrolled.svc, result |-> "transientError", provID |-> "",
          err |-> enrolled.err, requests |-> enrolled.requests, attempts |-> <<>>]
    ELSE IF enrolled.retry
    THEN [svc |-> enrolled.svc, result |-> "retryAfterDelay", provID |-> "",
          err |-> <<>>, requests |-> enrolled.requests, attempts |-> <<>>]
    ELSE RegisterResult(enrolled.requests, <<>>,
                        RegisterTail(enrolled.svc, enrolled.node[1],
                                     enrolled.node[1].UUID, tail))

\* Register going on to the node update although the port audit failed
\* (fault injection).
RegisterAudited_ignoringAudit(audit, ironicNode, tail) ==
    RegisterResult(audit.requests, audit.attempts,
                   RegisterTail(audit.svc, ironicNode, ironicNode.UUID, tail))

\* Register after the port audit of an existing node returned audit: a
\* transient error, or on with the node found.
RegisterAudited(audit, ironicNode, tail) ==
    IF audit.err # <<>>
    THEN [svc |-> audit.svc, result |-> "transientError", provID |-> ironicNode.UUID,
          err |-> <<Wrap("failed to ensure ports: ", audit.err[1])>>,
          requests |-> audit.requests, attempts |-> audit.attempts]
    ELSE RegisterResult(audit.requests, audit.attempts,
                        RegisterTail(audit.svc, ironicNode, ironicNode.UUID, tail))

\* Register: checks, node lookup, then enrollment of a new node or the port
\* audit of an existing one, then the node update and the provision state.
\* pre is "ok", "invalid" (a check that puts the host in an error state) or
\* "lookupError" (the lookup itself fails).
Register(svc, p, pre, createOutcome, faults, tail) ==
    LET stop(result, err) ==
            [svc |-> svc, result |-> result, provID |-> "", err |-> err,
             requests |-> <<>>, attempts |-> <<>>]
        ironicNode == findExistingHost(svc, p)
    IN  IF pre = "invalid" THEN stop("operationFailed", <<>>)
        ELSE IF pre = "lookupError"
        THEN stop("transientError",
                  <<Wrap("failed to find existing host: ", CallError("failed to list nodes"))>>)
        ELSE IF ironicNode = <<>>
        THEN RegisterEnrolled(enrollNode(svc, p, createOutcome, faults.pxe = "create"),
                              tail)
        ELSE RegisterAudited(ensurePorts(svc, p, ironicNode[1].UUID, faults),
                             ironicNode[1], tail)

\* EnsurePorts: the audit on its own, for a host that is registered
EnsurePorts(svc, p, faults) ==
    IF p.nodeID = ""
    THEN [svc |-> svc, err |-> <<NewError("node not registered")>>,
          requests |-> <<>>, attempts |-> <<>>]
    ELSE ensurePorts(svc, p, p.nodeID, faults)

----------------------------------------------------------------------------
(* The provisioner registering one host and auditing its ports, while *)
(* inspection results come and go                                     *)

\* The longest NIC list inspection stores for the host.
MaxPortNICs == 6

BootMAC == "11:22:33:44:55:66"

\* The NICs inspection may report, in the order it reports them: a MAC seen
\* twice in different case, a NIC without MAC, a PXE NIC, a nameless NIC,
\* the boot NIC, and the first MAC once more.
DiscoveredNICs ==
    <<HardwareNIC("eth0", "aa:bb:cc:dd:ee:01", FALSE, <<>>),
      HardwareNIC("eth0", "AA:BB:CC:DD:EE:01", FALSE,
                  <<LLDP("00:11:22:33:44:55", "Ethernet1/1", "")>>),
      HardwareNIC("eth1", "aa:bb:cc:dd:ee:02", TRUE, <<>>),
      HardwareNIC("eth2", "", FALSE, <<>>),
      HardwareNIC("", "AA:BB:CC:DD:EE:03", FALSE, <<LLDP("", "", "")>>),
      HardwareNIC("eth3", BootMAC, FALSE, <<>>),
      HardwareNIC("eth4", "Aa:Bb:Cc:Dd:Ee:01", TRUE, <<>>)>>

\* The hardware details the provisioner may hold: none before inspection,
\* else the NIC with link-layer data alone, the PXE NIC alone, or a run of
\* MaxPortNICs consecutive discovered NICs (all of them if there are fewer).
PortHardware ==
    {<<>>, <<[NIC |-> SubSeq(DiscoveredNICs, 2, 2)]>>,
     <<[NIC |-> SubSeq(DiscoveredNICs, 3, 3)]>>} \cup
    {<<[NIC |-> SubSeq(DiscoveredNICs, w[1], w[2])]>> :
        w \in {v \in (1..Len(DiscoveredNICs)) \X (1..Len(DiscoveredNICs)) :
                  \/ v[2] - v[1] + 1 = MaxPortNICs
                  \/ /\ v[1] = 1
                     /\ v[2] = Len(DiscoveredNICs)
                     /\ v[2] <= MaxPortNICs}}

\* The switch-port configurations set on the provisioner, keyed as the
\* host declares its interfaces: eth0 by name, the boot NIC, eth1 and the
\* nameless NIC by the MAC inspection reports for them.
PortConfigs ==
    [k \in {"eth0", BootMAC, "aa:bb:cc:dd:ee:02", "AA:BB:CC:DD:EE:03"} |->
        CASE k = "eth0" -> SwitchPortConfig(AccessSpec)
          [] k = BootMAC -> SwitchPortConfig(HybridSpec)
          [] OTHER -> SwitchPortConfig(TrunkSpec)]

\* Ports the service may hold before the provisioner's first call: the boot
\* MAC's port on this node or on another one, a port of this node with
\* link-layer data, a port of this node for a NIC not discovered.
RemotePorts ==
    {<<>>,
     <<Port(NodeUUID, BootMAC, TRUE, <<>>, <<>>)>>,
     <<Port("node-2", BootMAC, TRUE, <<>>, <<>>)>>,
     <<Port(NodeUUID, "aa:bb:cc:dd:ee:01", FALSE,
            <<[k \in {"switch_id"} |-> "00:11:22:33:44:55"]>>, <<>>)>>,
     <<Port(NodeUUID, "aa:bb:cc:dd:ee:99", FALSE, <<>>, <<>>)>>}

\* The nodes the service may hold for the host before the first call.
RemoteNodes ==
    {<<>>,
     <<[UUID |-> NodeUUID, ProvisionState |-> "enroll",
        TargetProvisionState |-> "", LastError |-> "power failure"]>>,
     <<[UUID |-> NodeUUID, ProvisionState |-> "manageable",
        TargetProvisionState |-> "", LastError |-> ""]>>,
     <<[UUID |-> NodeUUID, ProvisionState |-> "inspecting",
        TargetProvisionState |-> "", LastError |-> ""]>>,
     <<[UUID |-> NodeUUID, ProvisionState |-> "deploying",
        TargetProvisionState |-> "active", LastError |-> ""]>>}

\* The provisioning state of the host whose node the service holds in the
\* given state: registering for enroll and before enrollment, preparing for
\* manageable, available, inspecting; a node being deployed belongs to a
\* host in state provisioning.
HostStateOf(node) ==
    IF node = <<>> \/ node[1].ProvisionState = "enroll" THEN StateRegistering
    ELSE IF node[1].ProvisionState = "manageable" THEN StatePreparing
    ELSE IF node[1].ProvisionState = "available" THEN StateAvailable
    ELSE IF node[1].ProvisionState = "inspecting" THEN StateInspecting
    ELSE StateProvisioning

\* A provisioner for a host with or without boot MAC, registered or not.
InitPorts ==
    /\ ironic \in [node : RemoteNodes, ports : RemotePorts]
    /\ hosts = [h \in HostIds |->
                   IF h = TheHost THEN [NewHost EXCEPT !.State = HostStateOf(ironic.node)]
                   ELSE NewHost]
    /\ attachments = [att \in AttachmentIds |-> <<>>]
    /\ admission = NoAdmission
    /\ everRejected = {}
    /\ informer = NoInformer
    /\ validation = NoValidation
    /\ probe = NoProbe
    /\ pass = NoPass
    /\ everApplied = {}
    /\ prov \in [bootMACAddress : {"", BootMAC},
                 nodeID : IF ironic.node = <<>> THEN {""} ELSE {NodeUUID},
                 storedHardwareDetails : {<<>>},
                 switchPortConfigs : {PortConfigs}]
    /\ \A i \in 1..Len(ironic.ports) :
           ironic.ports[i].NodeUUID = NodeUUID => ironic.node # <<>>
    /\ call = NoCall
    /\ cluster = NoCluster
    /\ publish = NoPublish
    /\ units = NoUnits

\* Inspection stores hardware details, replaces them or resets them.
StoreHardwareDetails(hw) ==
    /\ call.op = "none"
    /\ prov.storedHardwareDetails # hw
    /\ prov' = [prov EXCEPT !.storedHardwareDetails = hw]
    /\ UNCHANGED <<switchVars, hosts, attachments, admission, everRejected, informer, validation, probe,
                   pass, everApplied, ironic, call>>

\* The inputs one Register call may meet in the current state.
RegisterInputs ==
    {[pre |-> pre, createOutcome |-> "ok", faults |-> NoFaults, tail |-> NoTail] :
        pre \in {"invalid", "lookupError"}}
    \cup
    (IF ironic.node = <<>>
     THEN {[pre |-> "ok", createOutcome |-> "ok", faults |-> NoFaults, tail |-> tail] :
              tail \in TailInputs}
          \cup {[pre |-> "ok", createOutcome |-> c, faults |-> f, tail |-> NoTail] :
                   c \in CreateOutcomes, f \in [list : {FALSE}, ensure : {{}},
                                                 pxe : {"", "create"}]}
     ELSE {[pre |-> "ok", createOutcome |-> "ok", faults |-> NoFaults, tail |-> tail] :
              tail \in TailInputs}
          \cup {[pre |-> "ok", createOutcome |-> "ok", faults |-> f, tail |-> tail] :
                   f \in PortFaults(prov), tail \in {NoTail, UpdateDue}})

\* The controller calls Register and keeps the provisioning ID it returns.
RegisterHost(in) ==
    LET res == Register(ironic, prov, in.pre, in.createOutcome, in.faults, in.tail)
    IN  /\ call.op = "none"
        /\ ironic' = res.svc
        /\ prov' = IF res.provID # "" THEN [prov EXCEPT !.nodeID = res.provID] ELSE prov
        /\ call' = [op |-> "Register", before |-> ironic, input |-> in,
                    requests |-> res.requests,
                    attempts |-> res.attempts, result |-> res.result,
                    provID |-> res.provID, err |-> res.err]
        /\ UNCHANGED <<switchVars, hosts, attachments, admission, everRejected, informer, validation, probe,
                       pass, everApplied>>

\* The controller has the ports of the host audited.
AuditPorts(faults) ==
    LET res == EnsurePorts(ironic, prov, faults)
    IN  /\ call.op = "none"
        /\ ironic' = res.svc
        /\ call' = [op |-> "EnsurePorts", before |-> ironic,
                    input |-> [pre |-> "ok", createOutcome |-> "ok",
                               faults |-> faults, tail |-> NoTail],
                    requests |-> res.requests,
                    attempts |-> res.attempts,
                    result |-> IF res.err = <<>> THEN "ok" ELSE "error",
                    provID |-> prov.nodeID, err |-> res.err]
        /\ UNCHANGED <<switchVars, hosts, attachments, admission, everRejected, informer, validation, probe,
                       pass, everApplied, prov>>

\* The call returns to the controller.
CallReturn ==
    /\ call.op # "none"
    /\ call' = NoCall
    /\ UNCHANGED <<switchVars, hosts, attachments, admission, everRejected, informer, validation, probe,
                   pass, everApplied, prov, ironic>>

NextPorts ==
    \/ \E hw \in PortHardware : StoreHardwareDetails(hw)
    \/ \E in \in RegisterInputs : RegisterHost(in)
    \/ \E faults \in PortFaults(prov) : AuditPorts(faults)
    \/ CallReturn

SpecPorts == InitPorts /\ [][NextPorts]_vars

----------------------------------------------------------------------------
(* Properties of the port reconciler and of registration *)

\* The ports of the service whose address is the given one, compared in
\* lower case.
PortsWithAddress(svc, address) ==
    SelectSeq(svc.ports, LAMBDA port : ToLower(port.Address) = ToLower(address))

\* An ensurePorts pass on a registered host before inspection, with a boot
\* MAC, that returned without error.
BootPortPass ==
    /\ call.op = "EnsurePorts"
    /\ prov.nodeID # ""
    /\ prov.storedHardwareDetails = <<>>
    /\ prov.bootMACAddress # ""
    /\ call.err = <<>>

\* C17: with no stored hardware details and a boot MAC set, an ensurePorts
\* pass that returns without error changes nothing if a port with the boot
\* MAC's address existed, and otherwise has created exactly one PXE-enabled
\* port for the boot MAC, carrying the configuration registered for that
\* MAC; afterwards the service holds exactly one port with that address.
C17_BootPortEnsuredOnce ==
    BootPortPass =>
        /\ IF PortsWithAddress(call.before, prov.bootMACAddress) # <<>>
           THEN ironic = call.before
           ELSE ironic.ports =
                    Append(call.before.ports,
                           Port(prov.nodeID, prov.bootMACAddress, TRUE, <<>>,
                                ConfigAt(prov.switchPortConfigs, prov.bootMACAddress)))
        /\ Len(PortsWithAddress(ironic, prov.bootMACAddress)) = 1

\* An ensurePorts pass on a registered host with stored hardware details.
HardwarePass ==
    /\ call.op = "EnsurePorts"
    /\ prov.nodeID # ""
    /\ prov.storedHardwareDetails # <<>>

\* The NICs of the attempts of the pass, in order.
AttemptedNICs == [i \in 1..Len(call.attempts) |-> call.attempts[i].nic]

\* The NICs whose attempt failed, in order.
FailedNICs ==
    LET failed == SelectSeq(call.attempts, LAMBDA attempt : attempt.failed)
    IN  [i \in 1..Len(failed) |-> failed[i].nic]

\* The text naming a NIC in the aggregate error.
FailureLabel(nic) == nic.Name \o "(" \o nic.MAC \o "): "

\* What a pass that got to the NICs returns: every deduplicated NIC attempted
\* once in order, an error exactly when an attempt failed, that error naming
\* the first three failed NICs and no other.
AttemptsAndAggregate ==
    /\ AttemptedNICs = deduplicateNICsByMAC(prov.storedHardwareDetails[1].NIC)
    /\ (call.err # <<>>) <=> (FailedNICs # <<>>)
    /\ call.err # <<>> =>
           \A i \in 1..Len(FailedNICs) :
               (i <= 3) <=> Contains(call.err[1].msg, FailureLabel(FailedNICs[i]))

\* C18 as stated: with stored hardware details every deduplicated NIC is
\* attempted exactly once whatever fails, ensurePorts returns an error if and
\* only if at least one attempt failed, and the error names the first three
\* failures only.
C18_ErrorIffAttemptFailed ==
    HardwarePass => AttemptsAndAggregate

\* C18: with stored hardware details, once the existing ports have been
\* listed, every deduplicated NIC is attempted exactly once whatever fails,
\* ensurePorts returns an error if and only if at least one attempt failed,
\* and the error names the first three failures only; when the listing fails
\* ensurePorts returns an error without attempting any NIC.
C18_ErrorIffAttemptFailedAfterListing ==
    HardwarePass =>
        IF call.input.faults.list
        THEN /\ call.err # <<>>
             /\ call.attempts = <<>>
             /\ ironic = call.before
        ELSE AttemptsAndAggregate

\* A pass in which four NICs failed, after the first one, and one call went
\* through: the error names three of them.
C18_Witness ==
    /\ HardwarePass
    /\ ~call.input.faults.list
    /\ Len(FailedNICs) = 4
    /\ Len(call.attempts) = 4
    /\ call.err # <<>>
    /\ ~Contains(call.err[1].msg, FailureLabel(FailedNICs[4]))

\* A pass in which the first NIC failed and a later one got its port.
C18_WitnessContinues ==
    /\ HardwarePass
    /\ Len(FailedNICs) = 1
    /\ call.attempts[1].failed
    /\ Len(call.attempts) > 1
    /\ Len(ironic.ports) > Len(call.before.ports)

\* The addresses of the ports the service holds for the host's node.
NodeAddresses(svc) ==
    {svc.ports[i].Address : i \in {j \in 1..Len(svc.ports) :
                                      svc.ports[j].NodeUUID = NodeUUID}}

\* C19: no step of the subsystem (Register, ensurePorts, whatever fails in
\* them and whatever the hardware details hold by then) removes an address
\* from the set of addresses of the node's remote ports.
C19_PortsNeverDeleted ==
    [][NodeAddresses(ironic) \subseteq NodeAddresses(ironic')]_vars

\* A pass with hardware details that created a port while the node holds a
\* port for a MAC the hardware details no longer list.
C19_Witness ==
    /\ call.op \in {"EnsurePorts", "Register"}
    /\ prov.storedHardwareDetails # <<>>
    /\ Len(ironic.ports) > Len(call.before.ports)
    /\ \E address \in NodeAddresses(call.before) :
           /\ \A i \in 1..Len(prov.storedHardwareDetails[1].NIC) :
                  ToLower(prov.storedHardwareDetails[1].NIC[i].MAC) # ToLower(address)
           /\ address \in NodeAddresses(ironic)

\* A Register call that passed its checks, found no node for the host and
\* went on to create one.
EnrollmentCall ==
    /\ call.op = "Register"
    /\ call.input.pre = "ok"
    /\ call.before.node = <<>>

\* The call sent a port creation to the service.
SentCreatePort ==
    \E i \in 1..Len(call.requests) : call.requests[i].op = "create-port"

\* C20: when nodes.Create answers with a conflict, enrollNode reports retry
\* without error and without node, Register returns retry-after-delay with
\* no error and no provisioning ID, no port creation is sent and the
\* service is as before; when nodes.Create fails otherwise, Register returns
\* a transient error with no provisioning ID.
C20_ConflictIsRetryNotError ==
    EnrollmentCall =>
        /\ call.input.createOutcome = "conflict" =>
               /\ LET enrolled == enrollNode(call.before, prov, "conflict",
                                             call.input.faults.pxe = "create")
                  IN  /\ enrolled.retry
                      /\ enrolled.err = <<>>
                      /\ enrolled.node = <<>>
               /\ call.result = "retryAfterDelay"
               /\ call.err = <<>>
               /\ call.provID = ""
               /\ ~SentCreatePort
               /\ ironic = call.before
        /\ call.input.createOutcome = "error" =>
               /\ call.result = "transientError"
               /\ call.err # <<>>
               /\ call.provID = ""
               /\ ~SentCreatePort
               /\ ironic = call.before

\* Register met a conflict while creating the node of a host with a boot
\* MAC and asked for a retry.
C20_Witness ==
    /\ EnrollmentCall
    /\ call.input.createOutcome = "conflict"
    /\ prov.bootMACAddress # ""
    /\ call.result = "retryAfterDelay"
    /\ prov.nodeID = ""

\* The positions of the records that are the first with their MAC, compared
\* without case, among the records with a MAC.
FirstSeen(nics) ==
    {i \in 1..Len(nics) :
        /\ nics[i].MAC # ""
        /\ \A j \in 1..(i - 1) : ToLower(nics[j].MAC) # ToLower(nics[i].MAC)}

\* The k-th smallest element of a set of positions.
KthOf(positions, k) ==
    CHOOSE i \in positions : Cardinality({j \in positions : j <= i}) = k

\* The position of the attempt for the port address of a request.
AttemptOf(request) ==
    CHOOSE k \in 1..Len(call.attempts) :
        ToLower(call.attempts[k].nic.MAC) = ToLower(request.port.Address)

\* C30: a pass with stored hardware details whose listing succeeded sent one
\* list call, first, and made one ensure call per distinct case-insensitive
\* non-empty MAC, for the first record with that MAC, in input order, the
\* create and update calls following in that order; no two port creations
\* of the pass have the same MAC.
C30_OneEnsurePerMACInInputOrder ==
    (HardwarePass /\ ~call.input.faults.list) =>
        LET nics == prov.storedHardwareDetails[1].NIC
            sent == call.requests
        IN  /\ sent[1].op = "list-ports"
            /\ \A i \in 2..Len(sent) : sent[i].op \in {"create-port", "update-port"}
            /\ Len(call.attempts) = Cardinality(FirstSeen(nics))
            /\ \A k \in 1..Len(call.attempts) :
                   call.attempts[k].nic = nics[KthOf(FirstSeen(nics), k)]
            /\ \A i, j \in 2..Len(sent) :
                   i < j => AttemptOf(sent[i]) < AttemptOf(sent[j])

\* A pass over a NIC list with a repeated MAC and a record without MAC that
\* created at least two ports.
C30_Witness ==
    /\ HardwarePass
    /\ ~call.input.faults.list
    /\ Len(prov.storedHardwareDetails[1].NIC) > Len(call.attempts) + 1
    /\ Len(call.attempts) >= 3
    /\ Len(call.requests) >= 3
    /\ call.requests[2].op = "create-port"
    /\ call.requests[3].op = "create-port"

\* A pass with stored hardware details whose listing succeeded.
ListedPass == HardwarePass /\ ~call.input.faults.list

\* The entry of the host's switch-port configurations stored under the NIC's
\* interface name, else the one stored under its MAC, else none.
StoredConfigFor(configs, nic) ==
    IF nic.Name # "" /\ nic.Name \in DOMAIN configs THEN <<configs[nic.Name]>>
    ELSE IF nic.MAC \in DOMAIN configs THEN <<configs[nic.MAC]>>
    ELSE <<>>

\* The same with the keys compared in lower case.
LowerCaseConfigFor(configs, nic) ==
    IF nic.Name # "" /\ ToLower(nic.Name) \in DOMAIN configs
    THEN <<configs[ToLower(nic.Name)]>>
    ELSE IF ToLower(nic.MAC) \in DOMAIN configs THEN <<configs[ToLower(nic.MAC)]>>
    ELSE <<>>

\* The ports listed for the node at the start of the pass whose address is
\* the NIC's MAC, compared without case.
ListedPortsFor(nic) ==
    LET listed == listNodePorts(call.before, prov.nodeID)
    IN  {listed[i] : i \in {j \in 1..Len(listed) :
                                ToLower(listed[j].Address) = ToLower(nic.MAC)}}

\* What every attempt of the pass was handed besides the configuration: the
\* PXE eligibility and the existing port.
PXEAndPortPerNIC ==
    \A k \in 1..Len(call.attempts) :
        LET attempt == call.attempts[k]
        IN  /\ attempt.isPXEPort <=>
                   (attempt.nic.PXE
                    \/ ToLower(attempt.nic.MAC) = ToLower(prov.bootMACAddress))
            /\ IF ListedPortsFor(attempt.nic) = {} THEN attempt.existingPort = <<>>
               ELSE /\ attempt.existingPort # <<>>
                    /\ attempt.existingPort[1] \in ListedPortsFor(attempt.nic)

\* C31: for each NIC processed by ensurePorts, the configuration handed to
\* the per-NIC ensure operation is the entry stored under the NIC's
\* interface name if one exists, otherwise the entry stored under the NIC's
\* MAC, otherwise none; the NIC is PXE-eligible iff its own PXE flag is set
\* or its MAC equals the boot MAC without regard to case; the existing port
\* handed over is the listed port whose address equals the NIC's MAC without
\* regard to case.
C31_ConfigPXEAndPortPerNIC ==
    ListedPass =>
        /\ \A k \in 1..Len(call.attempts) :
               call.attempts[k].switchConfig =
                   StoredConfigFor(prov.switchPortConfigs, call.attempts[k].nic)
        /\ PXEAndPortPerNIC

\* What the pass does hand over: the entry under the lower-cased name, else
\* the entry under the lower-cased MAC, with the PXE eligibility and the
\* existing port as C31 states them.
LowerCasedLookupPerNIC ==
    ListedPass =>
        /\ \A k \in 1..Len(call.attempts) :
               call.attempts[k].switchConfig =
                   LowerCaseConfigFor(prov.switchPortConfigs, call.attempts[k].nic)
        /\ PXEAndPortPerNIC

\* A pass that handed no configuration to a NIC although one is stored
\* under the MAC inspection reports for it.
StoredConfigMissedSeen ==
    /\ ListedPass
    /\ \E k \in 1..Len(call.attempts) :
           /\ call.attempts[k].switchConfig = <<>>
           /\ call.attempts[k].nic.MAC \in DOMAIN prov.switchPortConfigs

\* A pass that handed over a configuration found by name, one found by MAC,
\* an existing port, and a NIC made PXE-eligible by the boot MAC alone.
LookupSeen ==
    /\ ListedPass
    /\ \E k \in 1..Len(call.attempts) :
           /\ call.attempts[k].nic.Name \in DOMAIN prov.switchPortConfigs
           /\ call.attempts[k].switchConfig # <<>>
           /\ call.attempts[k].existingPort # <<>>
    /\ \E k \in 1..Len(call.attempts) :
           /\ call.attempts[k].nic.Name \notin DOMAIN prov.switchPortConfigs
           /\ call.attempts[k].switchConfig # <<>>
           /\ ~call.attempts[k].nic.PXE
           /\ call.attempts[k].isPXEPort

\* The listed ports of the NIC that carry link-layer connection data.
LinkedPortsFor(nic) ==
    {port \in ListedPortsFor(nic) : port.LocalLinkConnection # <<>>}

\* The create and update calls of the pass for the NIC's MAC.
PortCallsFor(nic) ==
    {i \in 2..Len(call.requests) :
        ToLower(call.requests[i].port.Address) = ToLower(nic.MAC)}

\* C32: in a pass of ensurePorts, a NIC whose existing port already carries
\* link-layer connection data gets no create and no update call, its attempt
\* does not fail and the port stays as it was, whatever link-layer data the
\* NIC reports; a pass all of whose NICs have such a port sends nothing but
\* the listing, changes nothing and returns no error.
C32_ExistingLLDPPortUntouched ==
    ListedPass =>
        /\ \A k \in 1..Len(call.attempts) :
               LinkedPortsFor(call.attempts[k].nic) # {} =>
                   /\ PortCallsFor(call.attempts[k].nic) = {}
                   /\ ~call.attempts[k].failed
                   /\ \A port \in LinkedPortsFor(call.attempts[k].nic) :
                          \E i \in 1..Len(ironic.ports) : ironic.ports[i] = port
        /\ (\A k \in 1..Len(call.attempts) :
                LinkedPortsFor(call.attempts[k].nic) # {}) =>
               /\ Len(call.requests) = 1
               /\ ironic = call.before
               /\ call.err = <<>>

\* A pass over one NIC that reports a switch and a port, the NIC's MAC in
\* another case than the address of its existing port, which carries other
\* link-layer data; the calls for the first NIC were set to fail.
C32_Witness ==
    /\ ListedPass
    /\ Len(call.attempts) = 1
    /\ call.input.faults.ensure = {1}
    /\ call.attempts[1].existingPort # <<>>
    /\ call.attempts[1].existingPort[1].Address # call.attempts[1].nic.MAC
    /\ call.attempts[1].existingPort[1].LocalLinkConnection # <<>>
    /\ buildLocalLinkConnection(call.attempts[1].nic) # <<>>
    /\ buildLocalLinkConnection(call.attempts[1].nic)
           # call.attempts[1].existingPort[1].LocalLinkConnection
    /\ call.err = <<>>
    /\ ironic = call.before

\* A Register call that found no node for the host and whose nodes.Create
\* went through.
NodeCreated ==
    /\ EnrollmentCall
    /\ call.input.createOutcome = "ok"

\* The port enrollment creates for the boot MAC.
BootPort ==
    Port(NodeUUID, prov.bootMACAddress, TRUE, <<>>,
         ConfigAt(prov.switchPortConfigs, prov.bootMACAddress))

\* The positions of the port creations among the requests of the call.
CreatePortCalls ==
    {i \in 1..Len(call.requests) : call.requests[i].op = "create-port"}

\* C33: a Register call that creates the node sends the node creation
\* first; with a boot MAC known the next request of the same call creates
\* the PXE-enabled port of the boot MAC, the only port creation of the call,
\* whether or not hardware details are stored, and the port is in the
\* service once that request went through; with no boot MAC known the call
\* creates no port, leaves the ports as they were, returns the new node's
\* UUID and goes on to the node's provision state, unless the
\* preprovisioning network data does not parse: then it ends after the
\* enrolment with a transient error and no further request.
C33_EnrollmentCreatesBootPort ==
    NodeCreated =>
        /\ call.requests[1] = [op |-> "create-node", node |-> NodeUUID]
        /\ ironic.node # <<>>
        /\ IF prov.bootMACAddress # ""
           THEN /\ Len(call.requests) >= 2
                /\ call.requests[2] = [op |-> "create-port", port |-> BootPort]
                /\ CreatePortCalls = {2}
                /\ call.input.faults.pxe # "create" =>
                       /\ ironic.ports = Append(call.before.ports, BootPort)
                       /\ call.provID = NodeUUID
           ELSE /\ CreatePortCalls = {}
                /\ ironic.ports = call.before.ports
                /\ call.provID = NodeUUID
                /\ (call.input.tail.update # "error"
                        /\ call.input.tail.networkData = "ok") =>
                       /\ call.err = <<>>
                       /\ call.result = "operationContinuing"
                /\ call.input.tail.networkData = "invalid" =>
                       /\ call.result = "transientError"
                       /\ Len(call.requests) = 1

\* A host with a boot MAC and no hardware details was enrolled and its
\* PXE-enabled boot port created by the same call.
C33_Witness ==
    /\ NodeCreated
    /\ prov.bootMACAddress # ""
    /\ prov.storedHardwareDetails = <<>>
    /\ call.before.ports = <<>>
    /\ ironic.ports = <<BootPort>>
    /\ BootPort.PXEEnabled
    /\ call.result = "operationContinuing"
    /\ prov.nodeID = NodeUUID

\* A host without boot MAC and without hardware details was enrolled; no
\* port was created.
C33_WitnessNoBootMAC ==
    /\ NodeCreated
    /\ prov.bootMACAddress = ""
    /\ prov.storedHardwareDetails = <<>>
    /\ ironic.ports = <<>>
    /\ call.result = "operationContinuing"
    /\ prov.nodeID = NodeUUID

\* C39: a Register call that created the node in the service returns the
\* created node's UUID as the provisioning ID, also when the creation of
\* the boot MAC's PXE-enabled port failed afterwards.
C39_CreatedNodeUUIDReturned ==
    NodeCreated => call.provID = NodeUUID

\* What the code does: the created node's UUID is returned unless the
\* creation of the boot port failed; then the provisioning ID is empty, the
\* error is transient, and the node stays in the service.
CreatedNodeUUIDReturnedUnlessPortFails ==
    NodeCreated =>
        IF prov.bootMACAddress # "" /\ call.input.faults.pxe = "create"
        THEN /\ call.provID = ""
             /\ call.result = "transientError"
             /\ call.err # <<>>
             /\ ironic.node # <<>>
        ELSE call.provID = NodeUUID

\* Enrollment created the node, the creation of the boot port failed, and
\* Register returned no provisioning ID: the controller holds none.
CreatedNodeWithoutIDSeen ==
    /\ NodeCreated
    /\ prov.bootMACAddress # ""
    /\ call.input.faults.pxe = "create"
    /\ ironic.node # <<>>
    /\ ironic.node[1].UUID = NodeUUID
    /\ call.provID = ""
    /\ prov.nodeID = ""

\* The create and update calls for ports among the requests of the call.
PortMutations ==
    {i \in 1..Len(call.requests) : call.requests[i].op \in {"create-port", "update-port"}}

\* Register found the node in the service and audited its ports.
ExistingNodeCall ==
    /\ call.op = "Register"
    /\ call.input.pre = "ok"
    /\ call.before.node # <<>>

\* The requests of the port audit among the requests of the call.
AuditRequests ==
    {i \in 1..Len(call.requests) :
        call.requests[i].op \in {"list-ports", "list-ports-by-address",
                                 "create-port", "update-port"}}

\* The node updates and provision-state changes among the requests.
NodeRequests ==
    {i \in 1..Len(call.requests) :
        call.requests[i].op \in {"update-node", "set-provision-state", "configure-node"}}

\* The call returned the error of a failed audit.
AuditFailed ==
    /\ call.err # <<>>
    /\ Len(call.err[1].msg) >= 24
    /\ SubSeq(call.err[1].msg, 1, 24) = "failed to ensure ports: "

\* The listing of the node's ports or the attempt of a NIC failed.
AuditFaultHit ==
    \/ prov.storedHardwareDetails # <<>> /\ call.input.faults.list
    \/ \E k \in 1..Len(call.attempts) : call.attempts[k].failed

\* C40: when Register finds the node in the service, every request of the
\* port audit precedes every node update and provision-state change of the
\* call; when the audit fails Register returns a transient error with the
\* node's UUID as provisioning ID, sends no node update and no
\* provision-state change, and leaves the node as it was.
C40_AuditBeforeNodeUpdate ==
    ExistingNodeCall =>
        /\ \A i \in AuditRequests : \A j \in NodeRequests : i < j
        /\ AuditFaultHit => AuditFailed
        /\ AuditFailed =>
               /\ call.result = "transientError"
               /\ call.provID = call.before.node[1].UUID
               /\ NodeRequests = {}
               /\ ironic.node = call.before.node

\* The audit of an existing node failed while a node update was due and
\* the node waited to be managed: no node update and no provision-state
\* change was sent.
C40_Witness ==
    /\ ExistingNodeCall
    /\ call.input.tail = UpdateDue
    /\ call.before.node[1].ProvisionState = "enroll"
    /\ call.before.node[1].TargetProvisionState # "manage"
    /\ AuditFaultHit
    /\ AuditFailed
    /\ call.provID = call.before.node[1].UUID
    /\ NodeRequests = {}

\* The audit went through, creating a port, and the node update and the
\* provision-state change followed it in the same call.
C40_WitnessAuditThenUpdate ==
    /\ ExistingNodeCall
    /\ call.input.tail = UpdateDue
    /\ call.err = <<>>
    /\ PortMutations # {}
    /\ \E j \in NodeRequests : call.requests[j].op = "update-node"
    /\ \E j \in NodeRequests : call.requests[j].op = "set-provision-state"

\* C37: port create and update calls for the host are issued only while
\* the host's provisioning state is in the allow-list (registering,
\* preparing, available, inspecting), the port audit Register performs for
\* a node that already exists included.
C37_PortCallsOnlyInAllowedStates ==
    (call.op \in {"Register", "EnsurePorts"} /\ PortMutations # {}) =>
        ironicAllowsPortUpdates(hosts[TheHost])

\* Register audited the ports of a node that is being deployed, the host in
\* state provisioning, and created a port.
AuditOutsideAllowedStatesSeen ==
    /\ call.op = "Register"
    /\ call.before.node # <<>>
    /\ call.before.node[1].ProvisionState = "deploying"
    /\ hosts[TheHost].State = StateProvisioning
    /\ \E i \in PortMutations : call.requests[i].op = "create-port"
    /\ Len(ironic.ports) > Len(call.before.ports)
    /\ call.result = "operationComplete"

\* Register audited the ports of a node in an allowed state and created a
\* port.
AuditInAllowedStateSeen ==
    /\ call.op = "Register"
    /\ call.before.node # <<>>
    /\ ironicAllowsPortUpdates(hosts[TheHost])
    /\ PortMutations # {}

----------------------------------------------------------------------------
(* The drift detector on its own, over hosts in every status *)

\* The longest interface list of a host the drift detector is given.
MaxDriftIfaces == 2

\* The interface lists of at most n interfaces.
InterfaceLists(n) ==
    UNION {[1..k -> ApplyInterfaces] : k \in 0..n}

\* The conditions a host may carry: none, an unrelated one, the validity
\* condition True or False, alone or after the unrelated one.
DriftConditions ==
    LET other == [Type |-> "Ready", Status |-> "True", Reason |-> "Ok", Message |-> ""]
        valid(status, reason) ==
            [Type |-> ConditionNetworkInterfacesValid, Status |-> status,
             Reason |-> reason, Message |-> ""]
    IN  {<<>>, <<other>>,
         <<valid("True", "AllInterfacesValid")>>,
         <<valid("False", "InvalidInterfaceNames")>>,
         <<other, valid("True", "AllInterfacesValid")>>,
         <<valid("Unknown", "")>>}

\* A host in any status: declared and applied lists, the applied list unset,
\* set and empty, or set with interfaces.
DriftHosts ==
    [NetworkInterfaces : InterfaceLists(MaxDriftIfaces),
     HardwareDetails : {<<>>},
     Conditions : DriftConditions,
     AppliedNetworkInterfaces :
         {NilSlice} \cup {SliceOf(l) : l \in InterfaceLists(MaxDriftIfaces)},
     State : {StateAvailable}]

InitDrift ==
    /\ hosts = [h \in HostIds |-> NewHost]
    /\ attachments = [att \in AttachmentIds |-> <<>>]
    /\ admission = NoAdmission
    /\ everRejected = {}
    /\ informer = NoInformer
    /\ validation = NoValidation
    /\ probe \in [done : {FALSE}, host : DriftHosts,
                  out : {[needsUpdate |-> FALSE, reason |-> ""]}]
    /\ pass = NoPass
    /\ everApplied = {}
    /\ prov = NoProv
    /\ ironic = NoIronic
    /\ call = NoCall
    /\ cluster = NoCluster
    /\ publish = NoPublish
    /\ units = NoUnits

\* The reconciler asks whether the host's configuration needs an update.
CheckDrift ==
    /\ ~probe.done
    /\ probe' = [probe EXCEPT !.done = TRUE,
                              !.out = switchPortConfigurationNeedsUpdate(probe.host)]
    /\ UNCHANGED <<switchVars, hosts, attachments, admission, everRejected, informer, validation>>
    /\ UNCHANGED <<pass, everApplied, provVars>>

NextDrift == CheckDrift

SpecDrift == InitDrift /\ [][NextDrift]_vars

\* The validity condition of the host is present with status True.
ConditionIsTrue(bmh) ==
    \E i \in 1..Len(bmh.Conditions) :
        /\ bmh.Conditions[i].Type = ConditionNetworkInterfacesValid
        /\ bmh.Conditions[i].Status = "True"

\* The row of the decision table that decides for the host: the first rule
\* that matches.
DecidingRule(bmh) ==
    LET declared == bmh.NetworkInterfaces
        applied == bmh.AppliedNetworkInterfaces
    IN  IF declared = <<>> /\ applied.items # <<>> THEN 1
        ELSE IF declared = <<>> THEN 2
        ELSE IF ~ConditionIsTrue(bmh) THEN 3
        ELSE IF applied.isNil THEN 4
        ELSE IF declared # applied.items THEN 5
        ELSE 6

\* C28: needsUpdate is the answer of the first matching rule of the table:
\* (1) nothing declared, applied list non-empty: update due, removed; (2)
\* nothing declared, nothing applied: none; (3) condition absent or not
\* True: none; (4) applied list unset: update due, initial; (5) declared
\* list differs from the applied one: update due, changed; (6) none.
C28_NeedsUpdateFollowsTable ==
    probe.done =>
        probe.out =
            IF DecidingRule(probe.host) = 1
            THEN [needsUpdate |-> TRUE, reason |-> "NetworkInterfacesRemoved"]
            ELSE IF DecidingRule(probe.host) = 4
            THEN [needsUpdate |-> TRUE, reason |-> "InitialConfiguration"]
            ELSE IF DecidingRule(probe.host) = 5
            THEN [needsUpdate |-> TRUE, reason |-> "NetworkInterfaceSpecChanged"]
            ELSE [needsUpdate |-> FALSE, reason |-> ""]

\* The detector was asked about a host with declared interfaces, validation
\* passed, and an applied list that is set but empty: rule 5 decides.
C28_Witness ==
    /\ probe.done
    /\ probe.host.NetworkInterfaces # <<>>
    /\ ConditionIsTrue(probe.host)
    /\ probe.host.AppliedNetworkInterfaces = SliceOf(<<>>)
    /\ probe.out.needsUpdate
    /\ probe.out.reason = "NetworkInterfaceSpecChanged"

----------------------------------------------------------------------------
(* Switch controller: rendering the BareMetalSwitch objects of a namespace *)
(* into the switch-config secret and the switch-credentials secret.       *)
(*                                                                         *)
(*   []byte                 a string                                       *)
(*   map[string][]byte      a function from strings to strings; a secret's *)
(*                          Data is a sequence of at most one map (<<>> is *)
(*                          the nil map)                                   *)
(*   *int32, *bool          a sequence of at most one value (<<>> is nil)  *)
(*   the API server         a record of the stored switches and secrets,   *)
(*                          each a function from namespaced names          *)

switchConfigKey == "switch-configs.conf"

SwitchCredentialTypePassword == "password"
SwitchCredentialTypePublicKey == "publickey"

\* types.NamespacedName
NamespacedName(namespace, name) == [Namespace |-> namespace, Name |-> name]

\* A map with one more entry: m[k] = v
MapSet(m, k, v) == [x \in DOMAIN m \cup {k} |-> IF x = k THEN v ELSE m[x]]

\* len() of a secret's Data, 0 for the nil map
DataLen(data) == IF data = <<>> THEN 0 ELSE Cardinality(DOMAIN data[1])

\* The keys of a secret's Data, none for the nil map
DataKeys(data) == IF data = <<>> THEN {} ELSE DOMAIN data[1]

RECURSIVE ReplaceAll(_, _, _)
\* strings.ReplaceAll(s, old, new), old not empty
ReplaceAll(s, old, new) ==
    IF Len(s) < Len(old) THEN s
    ELSE IF SubSeq(s, 1, Len(old)) = old
    THEN new \o ReplaceAll(SubSeq(s, Len(old) + 1, Len(s)), old, new)
    ELSE SubSeq(s, 1, 1) \o ReplaceAll(SubSeq(s, 2, Len(s)), old, new)

\* strconv.FormatBool
FormatBool(b) == IF b THEN "true" ELSE "false"

RECURSIVE CollapseSlashes(_)
\* A path with every run of separators replaced by one separator.
CollapseSlashes(path) ==
    IF Len(path) < 2 THEN path
    ELSE IF SubSeq(path, 1, 2) = "//"
    THEN CollapseSlashes(SubSeq(path, 2, Len(path)))
    ELSE SubSeq(path, 1, 1) \o CollapseSlashes(SubSeq(path, 2, Len(path)))

\* filepath.Clean for paths without . and .. elements: separators are
\* collapsed and a trailing separator is dropped, except for the root.
filepathClean(path) ==
    LET collapsed == CollapseSlashes(path)
        n == Len(collapsed)
    IN  IF path = "" THEN "."
        ELSE IF n > 1 /\ SubSeq(collapsed, n, n) = "/"
        THEN SubSeq(collapsed, 1, n - 1)
        ELSE collapsed

\* filepath.Join of a directory and a file name: empty elements are
\* ignored, the others joined by a separator and the result cleaned.
filepathJoin(dir, file) ==
    IF dir = "" /\ file = "" THEN ""
    ELSE IF dir = "" THEN filepathClean(file)
    ELSE IF file = "" THEN filepathClean(dir)
    ELSE filepathClean(dir \o "/" \o file)

\* client.Get of a secret: the stored secret, or none when it is not found.
GetSecret(cl, key) ==
    IF key \in DOMAIN cl.secrets THEN <<cl.secrets[key]>> ELSE <<>>

\* The text of a not-found error for a secret.
SecretNotFound(name) == NewError("secrets \"" \o name \o "\" not found")

\* The lines of a section that do not depend on the credentials.
SectionHead(sw) ==
    "[switch:" \o sw.Name \o "]\n"
    \o "address=" \o sw.Spec.Address \o "\n"
    \o "mac_address=" \o sw.Spec.MACAddress \o "\n"
    \o (IF sw.Spec.Port # <<>>
        THEN "port=" \o FormatInt(sw.Spec.Port[1]) \o "\n" ELSE "")
    \o "driver_type="
    \o (IF sw.Spec.Driver = "" THEN "generic-switch" ELSE sw.Spec.Driver) \o "\n"
    \o "device_type=" \o sw.Spec.DeviceType \o "\n"
    \o (IF sw.Spec.DisableCertificateVerification # <<>>
        THEN "insecure=" \o FormatBool(sw.Spec.DisableCertificateVerification[1]) \o "\n"
        ELSE "")

\* The MAC addresses switches declare.
SwitchMACs == {"00:00:5e:00:53:01", "aa:bb:cc:dd:ee:ff"}

\* strings.ReplaceAll(mac, ":", "-") + ".key", computed once per address.
KeyFileNameTable == [mac \in SwitchMACs |-> ReplaceAll(mac, ":", "-") \o ".key"]

\* The name of a switch's key file in the credentials secret.
KeyFileName(sw) ==
    IF sw.Spec.MACAddress \in SwitchMACs THEN KeyFileNameTable[sw.Spec.MACAddress]
    ELSE ReplaceAll(sw.Spec.MACAddress, ":", "-") \o ".key"

\* The directories the credentials secret may be mounted at.
CredentialPaths == {"/etc/ironic/switch-credentials"}

\* filepath.Join(credentialsPath, keyFileName), computed once per pair.
KeyFilePathTable ==
    [dir \in CredentialPaths |->
        [mac \in SwitchMACs |-> filepathJoin(dir, KeyFileNameTable[mac])]]

\* The path of a switch's key file where the credentials secret is mounted.
KeyFilePath(credentialsPath, sw) ==
    IF credentialsPath \in CredentialPaths /\ sw.Spec.MACAddress \in SwitchMACs
    THEN KeyFilePathTable[credentialsPath][sw.Spec.MACAddress]
    ELSE filepathJoin(credentialsPath, KeyFileName(sw))

\* writeSwitchEntry storing the key under the switch's name instead of its
\* MAC address (fault injection).
writeSwitchEntry_keyedByName(cl, sw, credentialsPath, configEntries, keyFiles, getFails) ==
    LET secretName == sw.Spec.Credentials.SecretName
        secret == GetSecret(cl, NamespacedName(sw.Namespace, secretName))
        failed(err) == [err |-> <<err>>, configEntries |-> configEntries,
                        keyFiles |-> keyFiles]
    IN  IF getFails \/ secret = <<>>
        THEN failed(Wrap("failed to get credentials secret " \o sw.Namespace \o "/"
                         \o secretName \o ": ",
                         IF getFails THEN NewError("get failed")
                         ELSE SecretNotFound(secretName)))
        ELSE IF "username" \notin DataKeys(secret[1].Data)
        THEN failed(NewError("credentials secret " \o secretName
                             \o " missing 'username' key"))
        ELSE IF sw.Spec.Credentials.Type = SwitchCredentialTypePublicKey
        THEN IF "ssh-privatekey" \notin DataKeys(secret[1].Data)
             THEN failed(NewError("credentials secret " \o secretName
                                  \o " missing 'ssh-privatekey' key for publickey auth"))
             ELSE [err |-> <<>>,
                   configEntries |->
                       MapSet(configEntries, sw.Name,
                              SectionHead(sw)
                              \o "username=" \o secret[1].Data[1]["username"] \o "\n"
                              \o "key_file="
                              \o filepathJoin(credentialsPath, sw.Name \o ".key")
                              \o "\n\n"),
                   keyFiles |-> MapSet(keyFiles, sw.Name \o ".key",
                                       secret[1].Data[1]["ssh-privatekey"])]
        ELSE IF "password" \notin DataKeys(secret[1].Data)
        THEN failed(NewError("credentials secret " \o secretName
                             \o " missing 'password' key"))
        ELSE [err |-> <<>>,
              configEntries |->
                  MapSet(configEntries, sw.Name,
                         SectionHead(sw)
                         \o "username=" \o secret[1].Data[1]["username"] \o "\n"
                         \o "password=" \o secret[1].Data[1]["password"] \o "\n\n"),
              keyFiles |-> keyFiles]

\* writeSwitchEntry: one switch's section is added to configEntries under
\* the switch's name and, for the publickey scheme, its private key to
\* keyFiles under the MAC-derived file name. On an error, the Get call
\* failing or the secret lacking a key, neither map gets an entry of this
\* switch.
writeSwitchEntry(cl, sw, credentialsPath, configEntries, keyFiles, getFails) ==
    LET secretName == sw.Spec.Credentials.SecretName
        secret == GetSecret(cl, NamespacedName(sw.Namespace, secretName))
        failed(err) == [err |-> <<err>>, configEntries |-> configEntries,
                        keyFiles |-> keyFiles]
    IN  IF getFails \/ secret = <<>>
        THEN failed(Wrap("failed to get credentials secret " \o sw.Namespace \o "/"
                         \o secretName \o ": ",
                         IF getFails THEN NewError("get failed")
                         ELSE SecretNotFound(secretName)))
        ELSE IF "username" \notin DataKeys(secret[1].Data)
        THEN failed(NewError("credentials secret " \o secretName
                             \o " missing 'username' key"))
        ELSE IF sw.Spec.Credentials.Type = SwitchCredentialTypePublicKey
        THEN IF "ssh-privatekey" \notin DataKeys(secret[1].Data)
             THEN failed(NewError("credentials secret " \o secretName
                                  \o " missing 'ssh-privatekey' key for publickey auth"))
             ELSE [err |-> <<>>,
                   configEntries |->
                       MapSet(configEntries, sw.Name,
                              SectionHead(sw)
                              \o "username=" \o secret[1].Data[1]["username"] \o "\n"
                              \o "key_file="
                              \o KeyFilePath(credentialsPath, sw)
                              \o "\n\n"),
                   keyFiles |-> MapSet(keyFiles, KeyFileName(sw),
                                       secret[1].Data[1]["ssh-privatekey"])]
        ELSE IF "password" \notin DataKeys(secret[1].Data)
        THEN failed(NewError("credentials secret " \o secretName
                             \o " missing 'password' key"))
        ELSE [err |-> <<>>,
              configEntries |->
                  MapSet(configEntries, sw.Name,
                         SectionHead(sw)
                         \o "username=" \o secret[1].Data[1]["username"] \o "\n"
                         \o "password=" \o secret[1].Data[1]["password"] \o "\n\n"),
              keyFiles |-> keyFiles]

\* secretDataEqual telling the nil map from the empty one (fault injection).
secretDataEqual_nilDiffers(a, b) == a = b

\* secretDataEqual: the same number of keys, and every key of a in b with
\* equal bytes; the nil map has no key.
secretDataEqual(a, b) ==
    IF DataLen(a) # DataLen(b) THEN FALSE
    ELSE \A k \in DataKeys(a) : k \in DataKeys(b) /\ a[1][k] = b[1][k]

RECURSIVE Concat(_, _)
\* The entries of a map written one after the other in the order of names.
Concat(entries, names) ==
    IF names = <<>> THEN ""
    ELSE entries[names[1]] \o Concat(entries, Tail(names))

\* A sequence of the elements of a finite set of strings.
RECURSIVE SeqOfSet(_)
SeqOfSet(S) ==
    IF S = {} THEN <<>>
    ELSE LET x == CHOOSE x \in S : TRUE IN <<x>> \o SeqOfSet(S \ {x})

Banner == "# This file is managed by the Baremetal Operator\n\n"

\* The names switches are given.
AllSwitchNames == {"switch1", "switch10", "switch2"}

\* sort.Strings of every set of these names, computed once.
SortedNamesTable == [S \in SUBSET AllSwitchNames |-> SortStrings(SeqOfSet(S))]

\* The names of a set in ascending order.
SortedNames(S) ==
    IF S \subseteq AllSwitchNames THEN SortedNamesTable[S] ELSE SortStrings(SeqOfSet(S))

\* The configuration blob with the sections in the order of name length,
\* shorter names first (fault injection).
ConfigBlob_shortestFirst(configEntries) ==
    LET names == SortedNames(DOMAIN configEntries)
        shortest == SelectSeq(names, LAMBDA n : \A m \in DOMAIN configEntries :
                                                    Len(n) <= Len(m))
        others == SelectSeq(names, LAMBDA n : \E m \in DOMAIN configEntries :
                                                  Len(n) > Len(m))
    IN  Banner \o Concat(configEntries, shortest \o others)

\* The configuration blob: the banner, then the sections sorted by name.
ConfigBlob(configEntries) ==
    Banner \o Concat(configEntries, SortedNames(DOMAIN configEntries))

\* The BareMetalSwitchReconciler's settings, as the tests choose them.
Reconciler ==
    [SwitchConfigsSecretName |-> "metal3-switch-configs",
     SwitchCredentialSecretName |-> "metal3-switch-credentials",
     SwitchCredentialPath |-> "/etc/ironic/switch-credentials"]

\* The names of the switches of a namespace.
SwitchNames(cl, namespace) ==
    {key.Name : key \in {k \in DOMAIN cl.switches : k.Namespace = namespace}}

\* client.List of the switches of a namespace: in the order of their names,
\* or in the reverse order.
ListSwitches(cl, namespace, reversed) ==
    LET names == SortedNames(SwitchNames(cl, namespace))
        n == Len(names)
    IN  [i \in 1..n |->
            cl.switches[NamespacedName(namespace,
                                       IF reversed THEN names[n + 1 - i] ELSE names[i])]]

\* findSwitchesForSecret looking at the switches of every namespace (fault
\* injection).
findSwitchesForSecret_anyNamespace(cl, secret, reversed, listFails) ==
    LET items == SeqOfSet({cl.switches[k] : k \in DOMAIN cl.switches})
        matching == SelectSeq(items, LAMBDA sw :
                                  sw.Spec.Credentials.SecretName = secret.Name)
    IN  IF listFails \/ matching = <<>> THEN NilSlice
        ELSE SliceOf([i \in 1..Len(matching) |->
                         NamespacedName(matching[i].Namespace, matching[i].Name)])

\* findSwitchesForSecret: a request for every listed switch naming the
\* secret as its credentials; nil when there is none or the list call fails.
findSwitchesForSecret(cl, secret, reversed, listFails) ==
    LET items == ListSwitches(cl, secret.Namespace, reversed)
        matching == SelectSeq(items, LAMBDA sw :
                                  sw.Spec.Credentials.SecretName = secret.Name)
    IN  IF listFails \/ matching = <<>> THEN NilSlice
        ELSE SliceOf([i \in 1..Len(matching) |->
                         NamespacedName(matching[i].Namespace, matching[i].Name)])

----------------------------------------------------------------------------
(* The switch controller at work in a namespace: switches and credential  *)
(* secrets are created, changed and deleted, secret events are mapped to  *)
(* requests, and each request is reconciled by a worker whose calls to the *)
(* API server are separate steps                                           *)

\* The variables of the host side, untouched by the switch controller.
hostVars == <<hosts, attachments, admission, everRejected, informer, validation, probe,
              pass, everApplied>>

\* Edits of switches and secrets made by the administrator in one run.
MaxEdits == 2

TheNamespace == "test-ns"
OtherNamespace == "other-ns"

\* The switches that may exist. The names sort as switch1, switch10,
\* switch2; the other namespace has a switch1 of its own.
SwitchKeys ==
    {NamespacedName(TheNamespace, "switch1"), NamespacedName(TheNamespace, "switch10"),
     NamespacedName(TheNamespace, "switch2"), NamespacedName(OtherNamespace, "switch1")}

\* metal3api.BareMetalSwitchSpec
SwitchSpec(address, mac, deviceType, driver, port, insecure, type, secretName) ==
    [Address |-> address, MACAddress |-> mac, DeviceType |-> deviceType,
     Driver |-> driver, Port |-> port, DisableCertificateVerification |-> insecure,
     Credentials |-> [Type |-> type, SecretName |-> secretName]]

\* A switch with password credentials and no optional field.
PasswordSpec ==
    SwitchSpec("192.168.1.1", "00:00:5e:00:53:01", "cisco_ios", "", <<>>, <<>>,
               SwitchCredentialTypePassword, "switch1-creds")

\* A switch with every optional field and no declared credential type.
FullSpec ==
    SwitchSpec("switch.example.com", "aa:bb:cc:dd:ee:ff", "dell_os10", "generic-switch",
               <<8443>>, <<TRUE>>, "", "switch1-creds")

\* A switch with public-key credentials.
PublicKeySpec ==
    SwitchSpec("192.168.1.10", "aa:bb:cc:dd:ee:ff", "netmiko_dell_os10", "", <<>>, <<>>,
               SwitchCredentialTypePublicKey, "switch2-creds")

\* Another switch with public-key credentials, declaring the same MAC
\* address and naming another secret.
PublicKeySpec2 ==
    SwitchSpec("192.168.1.2", "aa:bb:cc:dd:ee:ff", "netmiko_dell_os10", "", <<22>>,
               <<FALSE>>, SwitchCredentialTypePublicKey, "switch3-creds")

\* The specs a switch may be given.
SwitchSpecsFor(key) ==
    IF key.Namespace = OtherNamespace THEN {PasswordSpec}
    ELSE IF key.Name = "switch1" THEN {PasswordSpec, FullSpec}
    ELSE IF key.Name = "switch10" THEN {PublicKeySpec}
    ELSE {PublicKeySpec2}

\* The credential secrets of the namespace.
CredentialSecretKeys ==
    {NamespacedName(TheNamespace, "switch1-creds"),
     NamespacedName(TheNamespace, "switch2-creds"),
     NamespacedName(TheNamespace, "switch3-creds")}

\* A map given by its key-value pairs.
MapOf(pairs) ==
    [k \in {pairs[i][1] : i \in 1..Len(pairs)} |->
        pairs[CHOOSE i \in 1..Len(pairs) : pairs[i][1] = k][2]]

\* The data a credential secret may be given: complete, or lacking a key
\* its switches need.
SecretDataFor(key) ==
    IF key.Name = "switch1-creds"
    THEN {<<MapOf(<< <<"username", "admin">>, <<"password", "secret123">> >>)>>,
          <<MapOf(<< <<"password", "secret123">> >>)>>,
          <<MapOf(<< <<"username", "admin">> >>)>>}
    ELSE IF key.Name = "switch2-creds"
    THEN {<<MapOf(<< <<"username", "admin2">>, <<"ssh-privatekey", "private-key-data">> >>)>>,
          <<MapOf(<< <<"username", "admin2">> >>)>>}
    ELSE {<<MapOf(<< <<"username", "sshuser">>, <<"ssh-privatekey", "my-private-key">> >>)>>}

\* The secrets the deployment provides: the two generated secrets with no
\* data yet, and the credential secrets complete.
InitialSecrets ==
    [key \in CredentialSecretKeys
             \cup {NamespacedName(TheNamespace, Reconciler.SwitchConfigsSecretName),
                   NamespacedName(TheNamespace, Reconciler.SwitchCredentialSecretName)} |->
        IF key.Name = "switch1-creds"
        THEN [Data |-> <<MapOf(<< <<"username", "admin">>, <<"password", "secret123">> >>)>>,
              ResourceVersion |-> 1]
        ELSE IF key.Name = "switch2-creds"
        THEN [Data |-> <<MapOf(<< <<"username", "admin2">>,
                                  <<"ssh-privatekey", "private-key-data">> >>)>>,
              ResourceVersion |-> 1]
        ELSE IF key.Name = "switch3-creds"
        THEN [Data |-> <<MapOf(<< <<"username", "sshuser">>,
                                  <<"ssh-privatekey", "my-private-key">> >>)>>,
              ResourceVersion |-> 1]
        ELSE [Data |-> <<>>, ResourceVersion |-> 1]]

\* metal3api.BareMetalSwitch
Switch(key, spec) == [Namespace |-> key.Namespace, Name |-> key.Name, Spec |-> spec]

\* The switches the controller finds when it starts: none, or a password
\* switch and a public-key switch.
InitialSwitches ==
    {<<>>,
     [key \in {NamespacedName(TheNamespace, "switch1"),
               NamespacedName(TheNamespace, "switch10")} |->
         IF key.Name = "switch1" THEN Switch(key, PasswordSpec)
         ELSE Switch(key, PublicKeySpec)]}

\* The workers of the controller (MaxConcurrentReconciles of them).
Workers == {"worker-1", "worker-2"}

\* A reconcile that has just taken its request. pc is the call to the API
\* server it makes next, found whether the switch was there, items what the
\* list call returned, reads the credential secrets as the Get calls
\* returned them, one per switch done, configEntries and keyFiles what was
\* generated so far, held the data of the generated secrets as read, got
\* the secret the next update is based on, updates the names of the secrets
\* an update call was sent for, in order. second tells that the last
\* publish of the namespace succeeded and nothing was edited since, clean
\* that nothing was edited since the reconcile began.
NewUnit(req, second) ==
    [req |-> req, pc |-> "get", found |-> FALSE, items |-> <<>>, reads |-> <<>>,
     configEntries |-> <<>>, keyFiles |-> <<>>, generated |-> FALSE,
     held |-> <<>>, got |-> <<>>, updates |-> <<>>, err |-> <<>>,
     second |-> second, clean |-> TRUE]

\* Worker w's reconcile is about to make the call pc.
UnitAt(w, pc) == w \in DOMAIN publish /\ publish[w].pc = pc

\* How Reconcile wraps an error of updateSwitchConfigSecret.
ReconcilePrefix(u) ==
    IF u.found THEN "failed to update switch config: "
    ELSE "failed to update switch config after deletion: "

\* The reconcile ends with an error of updateSwitchConfigSecret.
Failed(u, err) ==
    [u EXCEPT !.pc = "done", !.got = <<>>, !.err = <<Wrap(ReconcilePrefix(u), err)>>]

\* The reconcile ends without an error.
Succeeded(u) == [u EXCEPT !.pc = "done", !.got = <<>>]

\* The data generated for the config secret.
ConfigData(u) == [k \in {switchConfigKey} |-> ConfigBlob(u.configEntries)]

\* An edit of a switch or secret of a namespace is seen by the reconciles
\* of the namespace that are under way.
Edited(namespace) ==
    [w \in DOMAIN publish |->
        IF publish[w].req.Namespace = namespace
        THEN [publish[w] EXCEPT !.second = FALSE, !.clean = FALSE]
        ELSE publish[w]]

InitPublish ==
    /\ hosts = [h \in HostIds |-> NewHost]
    /\ attachments = [att \in AttachmentIds |-> <<>>]
    /\ admission = NoAdmission
    /\ everRejected = {}
    /\ informer = NoInformer
    /\ validation = NoValidation
    /\ probe = NoProbe
    /\ pass = NoPass
    /\ everApplied = {}
    /\ prov = NoProv
    /\ ironic = NoIronic
    /\ call = NoCall
    /\ \E switches \in InitialSwitches :
           /\ cluster = [NoCluster EXCEPT !.switches = switches,
                                          !.secrets = InitialSecrets]
           /\ units = [NoUnits EXCEPT !.queue = DOMAIN switches]
    /\ publish = NoPublish

\* The administrator creates a switch or changes its spec; the watch on
\* switches queues a request for it.
ApplySwitch(key, spec) ==
    /\ cluster.edits < MaxEdits
    /\ key \in DOMAIN cluster.switches => cluster.switches[key].Spec # spec
    /\ cluster' = [cluster EXCEPT
                     !.switches = MapSet(@, key, Switch(key, spec)),
                     !.edits = @ + 1,
                     !.settled = @ \ {key.Namespace}]
    /\ units' = [units EXCEPT !.queue = @ \cup {key}]
    /\ publish' = Edited(key.Namespace)
    /\ UNCHANGED <<hostVars, provVars>>

\* The administrator deletes a switch; a request for it is queued.
DeleteSwitch(key) ==
    /\ cluster.edits < MaxEdits
    /\ key \in DOMAIN cluster.switches
    /\ cluster' = [cluster EXCEPT
                     !.switches = [k \in DOMAIN @ \ {key} |-> @[k]],
                     !.edits = @ + 1,
                     !.settled = @ \ {key.Namespace}]
    /\ units' = [units EXCEPT !.queue = @ \cup {key}]
    /\ publish' = Edited(key.Namespace)
    /\ UNCHANGED <<hostVars, provVars>>

\* The administrator creates a credential secret or replaces its data; the
\* watch on secrets has an event for it.
WriteSecret(key, data) ==
    /\ cluster.edits < MaxEdits
    /\ key \in DOMAIN cluster.secrets => cluster.secrets[key].Data # data
    /\ cluster' = [cluster EXCEPT
                     !.secrets = MapSet(@, key,
                                        [Data |-> data,
                                         ResourceVersion |->
                                             IF key \in DOMAIN @
                                             THEN @[key].ResourceVersion + 1 ELSE 1]),
                     !.edits = @ + 1,
                     !.settled = @ \ {key.Namespace}]
    /\ units' = [units EXCEPT !.events = @ \cup {key}]
    /\ publish' = Edited(key.Namespace)
    /\ UNCHANGED <<hostVars, provVars>>

\* The administrator deletes a credential secret.
DeleteSecret(key) ==
    /\ cluster.edits < MaxEdits
    /\ key \in DOMAIN cluster.secrets
    /\ cluster' = [cluster EXCEPT
                     !.secrets = [k \in DOMAIN @ \ {key} |-> @[k]],
                     !.edits = @ + 1,
                     !.settled = @ \ {key.Namespace}]
    /\ units' = [units EXCEPT !.events = @ \cup {key}]
    /\ publish' = Edited(key.Namespace)
    /\ UNCHANGED <<hostVars, provVars>>

\* The watch on secrets delivers an event: findSwitchesForSecret maps the
\* secret to requests, which are queued. The watch delivers its events one
\* after the other.
MapSecretEvent(key, reversed, listFails) ==
    LET requests == findSwitchesForSecret(cluster, key, reversed, listFails)
    IN  /\ ~units.mapped.ran
        /\ key \in units.events
        /\ units' = [units EXCEPT
                       !.events = @ \ {key},
                       !.queue = @ \cup {requests.items[i] : i \in 1..Len(requests.items)},
                       !.mapped = [ran |-> TRUE, secret |-> <<key>>,
                                   switches |-> cluster.switches,
                                   listFails |-> listFails, requests |-> requests]]
        /\ UNCHANGED <<hostVars, provVars, cluster, publish>>

\* The mapping returns to the watch.
MapReturn ==
    /\ units.mapped.ran
    /\ units' = [units EXCEPT !.mapped = NoUnits.mapped]
    /\ UNCHANGED <<hostVars, provVars, cluster, publish>>

\* A worker takes a request off the queue; no two workers hold the same
\* request.
TakeRequest(w, req) ==
    /\ w \notin DOMAIN publish
    /\ req \in units.queue
    /\ \A x \in DOMAIN publish : publish[x].req # req
    /\ units' = [units EXCEPT !.queue = @ \ {req}]
    /\ publish' = MapSet(publish, w, NewUnit(req, req.Namespace \in cluster.settled))
    /\ UNCHANGED <<hostVars, provVars, cluster>>

\* Reconcile gets the switch: found or not, it goes on to regenerate the
\* namespace's config; any other error ends it.
ReconcileGet(w, getFails) ==
    /\ UnitAt(w, "get")
    /\ publish' = [publish EXCEPT ![w] =
                     IF getFails
                     THEN [@ EXCEPT !.pc = "done",
                                    !.err = <<Wrap("could not load BareMetalSwitch: ",
                                                   NewError("get failed"))>>]
                     ELSE [@ EXCEPT !.pc = "list",
                                    !.found = publish[w].req \in DOMAIN cluster.switches]]
    /\ UNCHANGED <<hostVars, provVars, cluster, units>>

\* generateSwitchConfig lists the switches of the namespace.
GenerateList(w, reversed, listFails) ==
    /\ UnitAt(w, "list")
    /\ \E items \in {ListSwitches(cluster, publish[w].req.Namespace, reversed)} :
           publish' = [publish EXCEPT ![w] =
                         IF listFails
                         THEN Failed(@, Wrap("failed to list BareMetalSwitch resources: ",
                                             NewError("list failed")))
                         ELSE [@ EXCEPT !.items = items,
                                        !.generated = items = <<>>,
                                        !.pc = IF items = <<>> THEN "get-config"
                                               ELSE "entry"]]
    /\ UNCHANGED <<hostVars, provVars, cluster, units>>

\* generateSwitchConfig leaving out a switch whose entry fails and going
\* on with the others (fault injection).
AfterEntry_partial(u, sw, secret, entry) ==
    [u EXCEPT !.reads = Append(@, secret),
              !.configEntries = entry.configEntries,
              !.keyFiles = entry.keyFiles,
              !.generated = Len(u.reads) + 1 = Len(u.items),
              !.pc = IF Len(u.reads) + 1 = Len(u.items) THEN "get-config" ELSE "entry"]

\* The loop of generateSwitchConfig after writeSwitchEntry returned entry
\* for the switch sw, having read secret: an error ends the generation,
\* else the next switch follows and, after the last, the publishing.
AfterEntry(u, sw, secret, entry) ==
    IF entry.err # <<>>
    THEN Failed([u EXCEPT !.reads = Append(@, secret)],
                Wrap("failed to generate config for switch " \o sw.Name \o ": ",
                     entry.err[1]))
    ELSE [u EXCEPT !.reads = Append(@, secret),
                   !.configEntries = entry.configEntries,
                   !.keyFiles = entry.keyFiles,
                   !.generated = Len(u.reads) + 1 = Len(u.items),
                   !.pc = IF Len(u.reads) + 1 = Len(u.items) THEN "get-config"
                          ELSE "entry"]

\* writeSwitchEntry for the next listed switch: its credential secret is
\* read as it is stored now.
GenerateEntry(w, getFails) ==
    /\ UnitAt(w, "entry")
    /\ \E sw \in {publish[w].items[Len(publish[w].reads) + 1]} :
           publish' = [publish EXCEPT ![w] =
               AfterEntry(@, sw,
                          IF getFails THEN <<>>
                          ELSE GetSecret(cluster,
                                         NamespacedName(sw.Namespace,
                                                        sw.Spec.Credentials.SecretName)),
                          writeSwitchEntry(cluster, sw, Reconciler.SwitchCredentialPath,
                                           @.configEntries, @.keyFiles, getFails))]
    /\ UNCHANGED <<hostVars, provVars, cluster, units>>

\* updateSecretData, the Get call: the secret is read and compared with the
\* new data; if they are equal no update follows.
UpdateSecretGet(w, pc, what, secretName, newData, differs, same, getFails) ==
    /\ UnitAt(w, pc)
    /\ \E secret \in {GetSecret(cluster, NamespacedName(publish[w].req.Namespace,
                                                       secretName))} :
           publish' = [publish EXCEPT ![w] =
               IF getFails \/ secret = <<>>
               THEN Failed(@, Wrap("failed to update switch " \o what \o " secret: ",
                                   Wrap("failed to get secret " \o secretName \o ": ",
                                        IF getFails THEN NewError("get failed")
                                        ELSE SecretNotFound(secretName))))
               ELSE IF secretDataEqual(secret[1].Data, <<newData>>)
               THEN IF same = "done"
                    THEN Succeeded([@ EXCEPT !.held = Append(@, secret[1].Data)])
                    ELSE [@ EXCEPT !.pc = same, !.held = Append(@, secret[1].Data)]
               ELSE [@ EXCEPT !.pc = differs, !.got = secret,
                              !.held = Append(@, secret[1].Data)]]
    /\ UNCHANGED <<hostVars, provVars, cluster, units>>

\* updateSecretData, the Update call: it carries the resource version the
\* Get call returned, and the API server rejects it if the stored version
\* is another one by now.
UpdateSecretUpdate(w, pc, what, secretName, newData, next, updateFails) ==
    LET key == NamespacedName(publish[w].req.Namespace, secretName)
        conflict == \/ key \notin DOMAIN cluster.secrets
                    \/ cluster.secrets[key].ResourceVersion
                           # publish[w].got[1].ResourceVersion
        sent == [publish[w] EXCEPT !.updates = Append(@, secretName)]
    IN  /\ UnitAt(w, pc)
        /\ IF updateFails \/ conflict
           THEN /\ publish' = [publish EXCEPT ![w] =
                       Failed(sent,
                              Wrap("failed to update switch " \o what \o " secret: ",
                                   Wrap("failed to update secret " \o secretName \o ": ",
                                        IF updateFails THEN NewError("update failed")
                                        ELSE NewError("the object has been modified"))))]
                /\ UNCHANGED cluster
           ELSE /\ cluster' = [cluster EXCEPT !.secrets[key] =
                                  [Data |-> <<newData>>,
                                   ResourceVersion |-> @.ResourceVersion + 1]]
                /\ publish' = [publish EXCEPT ![w] =
                                 IF next = "done" THEN Succeeded(sent)
                                 ELSE [sent EXCEPT !.pc = next, !.got = <<>>]]
        /\ UNCHANGED <<hostVars, provVars, units>>

\* updateSwitchConfigSecret: the config secret first.
GetConfig(w, getFails) ==
    /\ w \in DOMAIN publish
    /\ UpdateSecretGet(w, "get-config", "configs", Reconciler.SwitchConfigsSecretName,
                       ConfigData(publish[w]), "update-config", "get-credentials",
                       getFails)

UpdateConfig(w, updateFails) ==
    /\ w \in DOMAIN publish
    /\ UpdateSecretUpdate(w, "update-config", "configs",
                          Reconciler.SwitchConfigsSecretName,
                          ConfigData(publish[w]), "get-credentials", updateFails)

\* updateSwitchConfigSecret: then the credentials secret.
GetCredentials(w, getFails) ==
    /\ w \in DOMAIN publish
    /\ UpdateSecretGet(w, "get-credentials", "credentials",
                       Reconciler.SwitchCredentialSecretName,
                       publish[w].keyFiles, "update-credentials", "done", getFails)

UpdateCredentials(w, updateFails) ==
    /\ w \in DOMAIN publish
    /\ UpdateSecretUpdate(w, "update-credentials", "credentials",
                          Reconciler.SwitchCredentialSecretName,
                          publish[w].keyFiles, "done", updateFails)

\* Reconcile returns to the controller: a request whose reconcile returned
\* an error is queued again.
ReconcileReturn(w) ==
    /\ UnitAt(w, "done")
    /\ publish' = [x \in DOMAIN publish \ {w} |-> publish[x]]
    /\ units' = [units EXCEPT
                   !.queue = IF publish[w].err # <<>> THEN @ \cup {publish[w].req}
                             ELSE @]
    /\ cluster' = [cluster EXCEPT
                     !.settled = IF publish[w].err = <<>> /\ publish[w].clean
                                 THEN @ \cup {publish[w].req.Namespace} ELSE @]
    /\ UNCHANGED <<hostVars, provVars>>

\* The steps of worker w.
WorkerStep(w, keys) ==
    \/ \E req \in keys : TakeRequest(w, req)
    \/ \E getFails \in BOOLEAN : ReconcileGet(w, getFails)
    \/ \E reversed, listFails \in BOOLEAN : GenerateList(w, reversed, listFails)
    \/ \E getFails \in BOOLEAN : GenerateEntry(w, getFails)
    \/ \E getFails \in BOOLEAN : GetConfig(w, getFails)
    \/ \E updateFails \in BOOLEAN : UpdateConfig(w, updateFails)
    \/ \E getFails \in BOOLEAN : GetCredentials(w, getFails)
    \/ \E updateFails \in BOOLEAN : UpdateCredentials(w, updateFails)
    \/ ReconcileReturn(w)

\* The worker whose reconciles the publishing claims are checked on; its
\* calls interleave with the administrator's edits and the secret watch.
PublishWorkers == {"worker-1"}

NextPublish ==
    \/ \E key \in SwitchKeys : \E spec \in SwitchSpecsFor(key) : ApplySwitch(key, spec)
    \/ \E key \in SwitchKeys : DeleteSwitch(key)
    \/ \E key \in CredentialSecretKeys : \E data \in SecretDataFor(key) :
           WriteSecret(key, data)
    \/ \E key \in CredentialSecretKeys : DeleteSecret(key)
    \/ \E key \in CredentialSecretKeys, reversed \in BOOLEAN, listFails \in BOOLEAN :
           MapSecretEvent(key, reversed, listFails)
    \/ MapReturn
    \/ \E w \in PublishWorkers : WorkerStep(w, SwitchKeys)

SpecPublish == InitPublish /\ [][NextPublish]_vars

----------------------------------------------------------------------------
(* Properties of switch-config publishing, checked under SpecPublish *)

\* The switches of a namespace stored in a cluster.
SwitchesIn(cl, namespace) ==
    {cl.switches[key] : key \in {k \in DOMAIN cl.switches : k.Namespace = namespace}}

\* The credential secret of a switch, none if it does not exist.
CredentialsOf(cl, sw) ==
    GetSecret(cl, NamespacedName(sw.Namespace, sw.Spec.Credentials.SecretName))

\* The secret a switch names exists and holds what the switch's scheme
\* requires: username, and ssh-privatekey or password.
CredentialsUsable(cl, sw) ==
    /\ CredentialsOf(cl, sw) # <<>>
    /\ "username" \in DataKeys(CredentialsOf(cl, sw)[1].Data)
    /\ IF sw.Spec.Credentials.Type = SwitchCredentialTypePublicKey
       THEN "ssh-privatekey" \in DataKeys(CredentialsOf(cl, sw)[1].Data)
       ELSE "password" \in DataKeys(CredentialsOf(cl, sw)[1].Data)

\* The key of a switch and of the secret it names.
SwitchKey(sw) == NamespacedName(sw.Namespace, sw.Name)
CredentialKey(sw) == NamespacedName(sw.Namespace, sw.Spec.Credentials.SecretName)

\* What a reconcile was given by the API server, as a cluster of its own:
\* the switches the list call returned and the credential secrets the Get
\* calls returned (the last call's answer, were a secret read twice).
ViewOf(u) ==
    LET read == {i \in 1..Len(u.reads) : u.reads[i] # <<>>}
    IN  [switches |->
             [key \in {SwitchKey(u.items[i]) : i \in 1..Len(u.items)} |->
                 u.items[CHOOSE i \in 1..Len(u.items) : SwitchKey(u.items[i]) = key]],
         secrets |->
             [key \in {CredentialKey(u.items[i]) : i \in read} |->
                 u.reads[CHOOSE i \in read :
                            /\ CredentialKey(u.items[i]) = key
                            /\ \A j \in read :
                                   CredentialKey(u.items[j]) = key => j <= i][1]]]

\* The reconciles that have ended and not returned yet.
Ended == {w \in DOMAIN publish : publish[w].pc = "done"}

\* The reconciles that ended without an error.
EndedOK == {w \in Ended : publish[w].err = <<>>}

\* The reconciles whose generation has gone through every listed switch.
Generated == {w \in DOMAIN publish : publish[w].generated}

\* Generation failed for a switch the reconcile went through: its
\* credential secret could not be read or lacks a key.
GenerationFails(u) ==
    \E i \in 1..Len(u.reads) : ~CredentialsUsable(ViewOf(u), u.items[i])

\* Worker w makes a call of its reconcile in this step.
OwnStep(w) ==
    /\ w \in DOMAIN publish
    /\ w \in DOMAIN publish'
    /\ publish[w].pc # "done"
    /\ \/ publish'[w].pc # publish[w].pc
       \/ publish'[w].reads # publish[w].reads

\* C21: if generation fails for any switch of the namespace (its credential
\* secret is missing, or lacks username, password or ssh-privatekey as its
\* scheme requires), the reconcile ends with an error, no update call is
\* made and neither the config secret nor the credentials secret is read or
\* modified by it.
C21_FailedGenerationPublishesNothing ==
    [][/\ \A w \in Ended' :
              GenerationFails(publish'[w]) =>
                  /\ publish'[w].err # <<>>
                  /\ ~publish'[w].generated
                  /\ publish'[w].updates = <<>>
                  /\ publish'[w].held = <<>>
       /\ \A w \in Workers :
              (OwnStep(w) /\ publish[w].pc \in {"get", "list", "entry"}) =>
                  cluster' = cluster]_vars

\* After an earlier publish, a switch listed after a usable one lost its
\* credential secret or a key of it, and the reconcile failed.
C21_Witness ==
    \E w \in Ended :
        /\ Len(publish[w].reads) = 2
        /\ CredentialsUsable(ViewOf(publish[w]), publish[w].items[1])
        /\ ~CredentialsUsable(ViewOf(publish[w]), publish[w].items[2])
        /\ cluster.secrets[NamespacedName(publish[w].req.Namespace,
                                          Reconciler.SwitchConfigsSecretName)].Data # <<>>
        /\ publish[w].err # <<>>

\* The names of a set in ascending byte order, each once.
Ascending(S) ==
    CHOOSE order \in [1..Cardinality(S) -> S] :
        \A i, j \in 1..Cardinality(S) : i < j => StringLess(order[i], order[j])

\* The section writeSwitchEntry generates for one switch on its own.
SectionOf(cl, sw) ==
    writeSwitchEntry(cl, sw, Reconciler.SwitchCredentialPath, <<>>, <<>>, FALSE)
        .configEntries[sw.Name]

RECURSIVE SectionsInOrder(_, _, _)
\* The sections of the named switches of a namespace, one after the other.
SectionsInOrder(cl, namespace, names) ==
    IF names = <<>> THEN ""
    ELSE SectionOf(cl, cl.switches[NamespacedName(namespace, names[1])])
         \o SectionsInOrder(cl, namespace, Tail(names))

\* The generated config secret of a namespace.
ConfigSecret(cl, namespace) ==
    cl.secrets[NamespacedName(namespace, Reconciler.SwitchConfigsSecretName)]

\* The generated credentials secret of a namespace.
CredentialSecret(cl, namespace) ==
    cl.secrets[NamespacedName(namespace, Reconciler.SwitchCredentialSecretName)]

\* The bytes the config secret is to hold for what a reconcile was given.
ExpectedConfig(u) ==
    "# This file is managed by the Baremetal Operator\n\n"
    \o SectionsInOrder(ViewOf(u), u.req.Namespace,
                       Ascending(SwitchNames(ViewOf(u), u.req.Namespace)))

\* Worker w's reconcile is through with the config secret in this step:
\* its update went through, or the secret held the data already.
ConfigPublished(w) ==
    /\ OwnStep(w)
    /\ publish[w].pc \in {"get-config", "update-config"}
    /\ publish'[w].pc = "get-credentials"

\* C22: a successful publish leaves in the config secret, under
\* switch-configs.conf alone, the banner line and a blank line followed by
\* exactly one section per switch of the namespace in ascending order of
\* the switch names, whatever the order the switches were listed in; with
\* no switch it is the banner and the blank line; the bytes depend on the
\* switches and their secrets, as the reconcile was given them, only.
C22_ConfigIsBannerAndSortedSections ==
    [][/\ \A w \in Generated' :
              /\ DOMAIN ConfigData(publish'[w]) = {switchConfigKey}
              /\ ConfigData(publish'[w])[switchConfigKey] = ExpectedConfig(publish'[w])
       /\ \A w \in Workers :
              ConfigPublished(w) =>
                  ConfigSecret(cluster', publish[w].req.Namespace).Data
                      = <<ConfigData(publish[w])>>]_vars

\* Three switches were listed as switch2, switch10, switch1 and published.
C22_Witness ==
    \E w \in EndedOK :
        /\ Len(publish[w].items) = 3
        /\ publish[w].items[1].Name = "switch2"
        /\ publish[w].items[2].Name = "switch10"
        /\ publish[w].items[3].Name = "switch1"
        /\ publish[w].updates # <<>>
        /\ ConfigSecret(cluster, publish[w].req.Namespace).Data
               = <<ConfigData(publish[w])>>

\* The last switch was deleted and the publish left the banner alone.
C22_WitnessEmptied ==
    \E w \in EndedOK :
        /\ publish[w].items = <<>>
        /\ ~publish[w].found
        /\ publish[w].held[1] # <<>>
        /\ publish[w].updates # <<>>
        /\ publish[w].updates[1] = Reconciler.SwitchConfigsSecretName
        /\ ConfigSecret(cluster, publish[w].req.Namespace).Data[1][switchConfigKey]
               = "# This file is managed by the Baremetal Operator\n\n"

\* A MAC address with every colon replaced by a dash.
Dashed(mac) ==
    Join([i \in 1..Len(mac) |->
             IF SubSeq(mac, i, i) = ":" THEN "-" ELSE SubSeq(mac, i, i)], "")

\* The lines of a switch's section in the order the format fixes, the
\* optional ones only if set.
SectionLines(cl, sw) ==
    <<"[switch:" \o sw.Name \o "]",
      "address=" \o sw.Spec.Address,
      "mac_address=" \o sw.Spec.MACAddress>>
    \o (IF sw.Spec.Port = <<>> THEN <<>>
        ELSE <<"port=" \o FormatInt(sw.Spec.Port[1])>>)
    \o <<"driver_type="
         \o (IF sw.Spec.Driver = "" THEN "generic-switch" ELSE sw.Spec.Driver),
         "device_type=" \o sw.Spec.DeviceType>>
    \o (IF sw.Spec.DisableCertificateVerification = <<>> THEN <<>>
        ELSE IF sw.Spec.DisableCertificateVerification[1]
        THEN <<"insecure=true">> ELSE <<"insecure=false">>)
    \o <<"username=" \o CredentialsOf(cl, sw)[1].Data[1]["username"]>>
    \o (IF sw.Spec.Credentials.Type = "publickey"
        THEN <<"key_file=" \o Reconciler.SwitchCredentialPath \o "/"
               \o Dashed(sw.Spec.MACAddress) \o ".key">>
        ELSE <<"password=" \o CredentialsOf(cl, sw)[1].Data[1]["password"]>>)

\* The section: every line ended by a newline, then one blank line.
SectionText(cl, sw) == Join(SectionLines(cl, sw), "\n") \o "\n\n"

\* C23: each generated section is the header [switch:<name>] followed, in
\* this order, by address, mac_address, port (only if set), driver_type
\* (the declared driver, or generic-switch when empty), device_type,
\* insecure (only if the flag is set, as true or false), username, then
\* key_file=<credentialPath>/<mac with dashes>.key for the publickey scheme
\* or password=<value> for any other scheme, never both, then exactly one
\* blank line.
C23_SectionFormat ==
    \A w \in Generated :
        \A sw \in SwitchesIn(ViewOf(publish[w]), publish[w].req.Namespace) :
            LET section == publish[w].configEntries[sw.Name]
            IN  /\ section = SectionText(ViewOf(publish[w]), sw)
                /\ ~(Contains(section, "\nkey_file=") /\ Contains(section, "\npassword="))

\* A generation covering a public-key switch with a port and the flag set
\* to false, and a switch with every optional field and no declared scheme.
C23_Witness ==
    \E w \in Generated :
        /\ \E sw \in SwitchesIn(ViewOf(publish[w]), publish[w].req.Namespace) :
               /\ sw.Spec.Credentials.Type = "publickey"
               /\ sw.Spec.Port # <<>>
               /\ sw.Spec.DisableCertificateVerification = <<FALSE>>
        /\ \E sw \in SwitchesIn(ViewOf(publish[w]), publish[w].req.Namespace) :
               /\ sw.Spec.Credentials.Type = ""
               /\ sw.Spec.Driver # ""
               /\ sw.Spec.DisableCertificateVerification = <<TRUE>>

\* A secret's data as a map, the nil map being the empty one.
NormalData(data) == IF data = <<>> THEN <<>> ELSE data[1]

\* An update call was sent for a secret.
UpdateSent(u, secretName) ==
    \E i \in 1..Len(u.updates) : u.updates[i] = secretName

\* An update call was sent for a secret exactly when the generated data
\* differs from the data the Get call returned, nil and empty being equal.
UpdateSentIffDataDiffers ==
    \A w \in EndedOK :
        /\ UpdateSent(publish[w], Reconciler.SwitchConfigsSecretName)
           <=> NormalData(publish[w].held[1]) # ConfigData(publish[w])
        /\ UpdateSent(publish[w], Reconciler.SwitchCredentialSecretName)
           <=> NormalData(publish[w].held[2]) # publish[w].keyFiles

\* The reconciles that published without an error after a successful
\* publish of the same namespace, with no switch and no secret changed in
\* between or meanwhile.
SecondPublish == {w \in EndedOK : publish[w].second}

\* C24: the update call for a secret is skipped exactly when the generated
\* data equals the secret's current data as maps of byte strings, a nil map
\* and an empty map being equal, so a second publish over unchanged
\* switches and credential secrets sends no update for either secret.
C24_SecondPublishSendsNoUpdate ==
    /\ UpdateSentIffDataDiffers
    /\ \A w \in SecondPublish : publish[w].updates = <<>>

\* No two public-key switches a reconcile listed declare the same MAC
\* address.
DistinctKeyMACs(u) ==
    \A sw1, sw2 \in SwitchesIn(ViewOf(u), u.req.Namespace) :
        (/\ sw1.Spec.Credentials.Type = SwitchCredentialTypePublicKey
         /\ sw2.Spec.Credentials.Type = SwitchCredentialTypePublicKey
         /\ sw1.Spec.MACAddress = sw2.Spec.MACAddress) => sw1 = sw2

\* What holds of the code: a second publish sends no update when the
\* public-key switches declare distinct MAC addresses.
SecondPublishQuietForDistinctMACs ==
    /\ UpdateSentIffDataDiffers
    /\ \A w \in SecondPublish :
           DistinctKeyMACs(publish[w]) => publish[w].updates = <<>>

\* A second publish over a password switch and a public-key switch found
\* both secrets as they should be; the credentials secret without a key
\* file kept its nil data through the first publish.
SecondPublishSeen ==
    \E w \in SecondPublish :
        /\ Len(publish[w].items) >= 2
        /\ publish[w].updates = <<>>
        /\ publish[w].held[1] # <<>>

\* The public-key switches a reconcile listed.
PublicKeySwitches(u) ==
    {sw \in SwitchesIn(ViewOf(u), u.req.Namespace) :
        sw.Spec.Credentials.Type = SwitchCredentialTypePublicKey}

\* The key map has as many entries as there are public-key switches, all
\* named <mac with dashes>.key, and each switch's entry carries the
\* ssh-privatekey of the secret that switch names.
OneKeyEntryPerSwitch(u) ==
    /\ Cardinality(DOMAIN u.keyFiles) = Cardinality(PublicKeySwitches(u))
    /\ DOMAIN u.keyFiles
           = {Dashed(sw.Spec.MACAddress) \o ".key" : sw \in PublicKeySwitches(u)}
    /\ \A sw \in PublicKeySwitches(u) :
           u.keyFiles[Dashed(sw.Spec.MACAddress) \o ".key"]
               = CredentialsOf(ViewOf(u), sw)[1].Data[1]["ssh-privatekey"]

\* C25: after a successful generation the key map holds exactly one
\* <mac-with-dashes>.key entry per public-key switch of the namespace, each
\* with that switch's own ssh-privatekey bytes, and is empty when there is
\* no such switch, whatever MAC addresses the switches declare.
C25_OneKeyEntryPerPublicKeySwitch ==
    \A w \in Generated : OneKeyEntryPerSwitch(publish[w])

\* What holds of the code: the same, for switches whose public-key members
\* declare distinct MAC addresses.
KeyEntryPerSwitchForDistinctMACs ==
    \A w \in Generated :
        DistinctKeyMACs(publish[w]) => OneKeyEntryPerSwitch(publish[w])

\* Two public-key switches with secrets of their own declare one MAC
\* address: the key map has one entry, with the key of the switch listed
\* last.
SharedMACSeen ==
    \E w \in Generated :
        /\ Cardinality(PublicKeySwitches(publish[w])) = 2
        /\ Cardinality(DOMAIN publish[w].keyFiles) = 1
        /\ \A k \in DOMAIN publish[w].keyFiles :
               publish[w].keyFiles[k]
                   = publish[w].reads[Len(publish[w].reads)][1].Data[1]["ssh-privatekey"]

\* The key file lines a section of the config may hold, each with the name
\* of the entry of the credentials secret it points at: the dashed forms of
\* the MAC addresses switches declare.
KeyFileLines ==
    [name \in {Dashed(mac) \o ".key" : mac \in SwitchMACs} |->
        "\nkey_file=" \o Reconciler.SwitchCredentialPath \o "/" \o name \o "\n"]

\* The names of the key files the sections of a namespace's config secret
\* name.
NamedKeyFiles(cl, namespace) ==
    IF switchConfigKey \notin DataKeys(ConfigSecret(cl, namespace).Data) THEN {}
    ELSE {name \in DOMAIN KeyFileLines :
             Contains(ConfigSecret(cl, namespace).Data[1][switchConfigKey],
                      KeyFileLines[name])}

\* Every key file a section of the namespace's config secret names has its
\* entry in the namespace's credentials secret.
KeyFilesPresent(cl, namespace) ==
    NamedKeyFiles(cl, namespace)
        \subseteq DataKeys(CredentialSecret(cl, namespace).Data)

\* C35: in every reachable state of the two generated secrets, a publish
\* that failed between its two writes included, every key_file named in a
\* section of the config secret has a matching <mac-with-dashes>.key entry
\* in the credentials secret.
C35_NamedKeyFilesExist ==
    \A namespace \in {TheNamespace, OtherNamespace} :
        ({NamespacedName(namespace, Reconciler.SwitchConfigsSecretName),
          NamespacedName(namespace, Reconciler.SwitchCredentialSecretName)}
             \subseteq DOMAIN cluster.secrets)
        => KeyFilesPresent(cluster, namespace)

\* What holds of the code with one worker: the same once a publish has
\* ended without an error.
KeyFilesExistAfterPublish ==
    \A w \in EndedOK : KeyFilesPresent(cluster, publish[w].req.Namespace)

\* A publish wrote a config naming a key file and failed to update the
\* credentials secret, which lacks the entry.
ConfigAheadOfCredentialsSeen ==
    \E w \in Ended :
        /\ publish[w].err # <<>>
        /\ publish[w].updates = <<Reconciler.SwitchConfigsSecretName,
                                  Reconciler.SwitchCredentialSecretName>>
        /\ ConfigSecret(cluster, publish[w].req.Namespace).Data
               = <<ConfigData(publish[w])>>
        /\ CredentialSecret(cluster, publish[w].req.Namespace).Data = publish[w].held[2]
        /\ ~KeyFilesPresent(cluster, publish[w].req.Namespace)

\* A publish has written a config naming a key file and has not come to
\* the credentials secret yet, which lacks the entry.
ConfigWrittenFirstSeen ==
    \E w \in DOMAIN publish :
        /\ publish[w].pc = "get-credentials"
        /\ publish[w].updates = <<Reconciler.SwitchConfigsSecretName>>
        /\ ~KeyFilesPresent(cluster, publish[w].req.Namespace)

\* A successful publish left a config naming a key file and the entry in
\* the credentials secret.
KeyFilePublishedSeen ==
    \E w \in EndedOK :
        /\ NamedKeyFiles(cluster, publish[w].req.Namespace) # {}
        /\ KeyFilesPresent(cluster, publish[w].req.Namespace)

\* A switch was added between a reconcile's list call and its update of
\* the config secret, which went through without it.
EditedMeanwhileSeen ==
    \E w \in EndedOK :
        /\ ~publish[w].clean
        /\ publish[w].updates # <<>>
        /\ \E key \in DOMAIN cluster.switches :
               /\ key.Namespace = publish[w].req.Namespace
               /\ key \notin DOMAIN ViewOf(publish[w]).switches

----------------------------------------------------------------------------
(* Properties of the secret-to-switch mapping, checked under SpecPublish *)

\* The switches that name the mapped secret as their credentials and live
\* in its namespace, as stored when the event was mapped.
ReferencingSwitches ==
    {key \in DOMAIN units.mapped.switches :
        /\ key.Namespace = units.mapped.secret[1].Namespace
        /\ units.mapped.switches[key].Spec.Credentials.SecretName
               = units.mapped.secret[1].Name}

\* The requests the mapping returned.
MappedRequests ==
    {units.mapped.requests.items[i] : i \in 1..Len(units.mapped.requests.items)}

\* The step in which a secret event is mapped.
Mapping == ~units.mapped.ran /\ units'.mapped.ran

\* The mapping yields the referencing switches and leaves one queued.
ReferencingSwitchesQueued ==
    /\ MappedRequests = ReferencingSwitches
    /\ ReferencingSwitches # {} =>
           \E req \in units.queue : req \in ReferencingSwitches

\* C26: when a credential secret changes, the mapping yields a request for
\* exactly the switches of the secret's namespace whose
\* credentials.secretName is the secret's name, so that a change to a
\* referenced secret always has a reconcile of its namespace queued.
C26_SecretChangeQueuesReferencingSwitches ==
    [][Mapping => ReferencingSwitchesQueued']_vars

\* The mapping is exact and queues every request it returns.
MappingExact ==
    /\ MappedRequests = ReferencingSwitches
    /\ units.mapped.requests.isNil <=> ReferencingSwitches = {}
    /\ MappedRequests \subseteq units.queue

\* What holds of the code: the same, when the list call of the mapping
\* succeeds.
MappingExactWhenListed ==
    [][(Mapping /\ ~units'.mapped.listFails) => MappingExact']_vars

\* A secret named by a switch of its namespace and by a switch of another
\* namespace changed; only the former got a request.
MappingSeen ==
    /\ units.mapped.ran
    /\ ~units.mapped.listFails
    /\ ReferencingSwitches # {}
    /\ \E key \in DOMAIN units.mapped.switches :
           /\ key.Namespace # units.mapped.secret[1].Namespace
           /\ units.mapped.switches[key].Spec.Credentials.SecretName
                  = units.mapped.secret[1].Name

\* The list call failed while a switch named the changed secret, and no
\* request was left for its namespace.
DroppedEventSeen ==
    /\ units.mapped.ran
    /\ units.mapped.listFails
    /\ ReferencingSwitches # {}
    /\ units.mapped.requests.isNil
    /\ \A req \in units.queue : req.Namespace # units.mapped.secret[1].Namespace
    /\ \A w \in DOMAIN publish : publish[w].req.Namespace # units.mapped.secret[1].Namespace

----------------------------------------------------------------------------
(* Concurrent switch reconciles: two workers, whose calls to the API       *)
(* server interleave with each other's and with the administrator's edits *)
(* of switches and credential secrets.                                     *)

\* The switches edited while the workers run.
UnitSwitchKeys ==
    {NamespacedName(TheNamespace, "switch1"), NamespacedName(TheNamespace, "switch2")}

\* The credential secret edited while the workers run.
UnitSecretKeys == {NamespacedName(TheNamespace, "switch1-creds")}

\* The data it is given: complete, or rotated.
UnitSecretData ==
    {<<MapOf(<< <<"username", "admin">>, <<"password", "secret123">> >>)>>,
     <<MapOf(<< <<"username", "admin">>, <<"password", "rotated456">> >>)>>}

\* The generated secrets as a successful publish over no switch leaves
\* them.
PublishedSecrets ==
    [key \in DOMAIN InitialSecrets |->
        IF key.Name = Reconciler.SwitchConfigsSecretName
        THEN [Data |-> <<[k \in {switchConfigKey} |-> Banner]>>, ResourceVersion |-> 2]
        ELSE InitialSecrets[key]]

InitUnits ==
    /\ hosts = [h \in HostIds |-> NewHost]
    /\ attachments = [att \in AttachmentIds |-> <<>>]
    /\ admission = NoAdmission
    /\ everRejected = {}
    /\ informer = NoInformer
    /\ validation = NoValidation
    /\ probe = NoProbe
    /\ pass = NoPass
    /\ everApplied = {}
    /\ prov = NoProv
    /\ ironic = NoIronic
    /\ call = NoCall
    /\ cluster = [NoCluster EXCEPT !.secrets = PublishedSecrets]
    /\ publish = NoPublish
    /\ units = NoUnits

NextUnits ==
    \/ \E key \in UnitSwitchKeys : \E spec \in SwitchSpecsFor(key) : ApplySwitch(key, spec)
    \/ \E key \in UnitSwitchKeys : DeleteSwitch(key)
    \/ \E key \in UnitSecretKeys : \E data \in UnitSecretData : WriteSecret(key, data)
    \/ \E key \in UnitSecretKeys : DeleteSecret(key)
    \/ \E key \in UnitSecretKeys, reversed \in BOOLEAN, listFails \in BOOLEAN :
           MapSecretEvent(key, reversed, listFails)
    \/ MapReturn
    \/ \E w \in Workers : WorkerStep(w, UnitSwitchKeys)

SpecUnits == InitUnits /\ [][NextUnits]_vars

\* Every triggered reconcile has completed, and none is queued again after
\* an error; no secret event waits to be mapped.
AllUnitsDone ==
    /\ units.queue = {}
    /\ DOMAIN publish = {}
    /\ units.events = {}
    /\ ~units.mapped.ran

\* Every switch of the namespace has its credentials as its scheme needs.
AllUsable ==
    \A sw \in SwitchesIn(cluster, TheNamespace) : CredentialsUsable(cluster, sw)

\* The rendering of the switches and credential secrets as they are now.
CurrentRendering ==
    "# This file is managed by the Baremetal Operator\n\n"
    \o SectionsInOrder(cluster, TheNamespace, Ascending(SwitchNames(cluster, TheNamespace)))

\* C27: once all triggered reconciles have completed without error, the
\* config secret equals the rendering of the switches and credential
\* secrets as they are at that time; a reconcile that read an older switch
\* list never leaves its older configuration in place over a newer one.
C27_SettledConfigIsCurrent ==
    (AllUnitsDone /\ AllUsable) =>
        ConfigSecret(cluster, TheNamespace).Data
            = <<[k \in {switchConfigKey} |-> CurrentRendering]>>

\* A stale update, sent with a resource version that has moved since the
\* reconcile read it, is about to be rejected.
StaleWriteSeen ==
    \E w \in DOMAIN publish :
        /\ publish[w].pc = "update-config"
        /\ publish[w].got[1].ResourceVersion
               # ConfigSecret(cluster, TheNamespace).ResourceVersion

\* All reconciles are done while the config secret holds the rendering of
\* an older switch list than the one stored: two switches exist, and the
\* config written last has the section of one of them only, as the
\* credential secrets are now.
OlderConfigLeftSeen ==
    /\ AllUnitsDone
    /\ AllUsable
    /\ cluster.edits = 2
    /\ Cardinality(SwitchNames(cluster, TheNamespace)) = 2
    /\ \E sw \in SwitchesIn(cluster, TheNamespace) :
           ConfigSecret(cluster, TheNamespace).Data
               = <<[k \in {switchConfigKey} |->
                      "# This file is managed by the Baremetal Operator\n\n"
                      \o SectionOf(cluster, sw)]>>
    /\ ConfigSecret(cluster, TheNamespace).ResourceVersion >= 4

====
